---- MODULE Spec2Model ----
(***************************************************************************)
(* Model of the log normalisation and aggregation core:                    *)
(*   Diet/update_weight_history.py      weekly merge-upsert pipeline       *)
(*   03_ projects/Calories_BMR/loseit_week_analyzer.py  weekly export      *)
(*   Workout/workout_history.py         PR statistics                      *)
(*                                                                         *)
(* A Python str is a sequence of one-character strings; the two characters *)
(* outside ASCII are written "NBSP" (U+00A0) and "ENDASH" (U+2013).        *)
(* A Python float is the rational num/den (den > 0); Optional[float] is a  *)
(* record whose field some says whether a value is present.                *)
(***************************************************************************)
EXTENDS Integers, Sequences, FiniteSets, TLC

----------------------------------------------------------------------------
(* Bounds of the model                                                     *)

MaxStrLen == 3      \* longest numeric cell explored exhaustively
MaxRows == 2        \* most data rows of one input file
MaxDaily == 2       \* most daily records given to the aggregator
MaxSets == 3        \* most sets of one workout log
MaxReps == 40       \* most repetitions of one set
MaxLines == 4       \* most rows of one weekly export
MaxHeaders == 3     \* most headers of one daily log

----------------------------------------------------------------------------
(* Strings                                                                 *)

Range(s) == {s[i] : i \in 1..Len(s)}

\* str.isspace() over the characters of the model
IsSpace(c) == c \in {" ", "NBSP"}

RECURSIVE LStrip(_)
LStrip(s) == IF s # <<>> /\ IsSpace(Head(s)) THEN LStrip(Tail(s)) ELSE s

RECURSIVE RStrip(_)
RStrip(s) ==
    IF s # <<>> /\ IsSpace(s[Len(s)]) THEN RStrip(SubSeq(s, 1, Len(s) - 1)) ELSE s

\* str.strip()
Strip(s) == RStrip(LStrip(s))

\* str.replace(a, b) for single characters a, b
ReplaceChar(s, a, b) == [i \in 1..Len(s) |-> IF s[i] = a THEN b ELSE s[i]]

\* str.replace(a, "") for a single character a
RECURSIVE RemoveChar(_, _)
RemoveChar(s, a) ==
    IF s = <<>> THEN <<>>
    ELSE IF Head(s) = a THEN RemoveChar(Tail(s), a)
    ELSE <<Head(s)>> \o RemoveChar(Tail(s), a)

UpperLetters ==
    <<"A","B","C","D","E","F","G","H","I","J","K","L","M",
      "N","O","P","Q","R","S","T","U","V","W","X","Y","Z">>
LowerLetters ==
    <<"a","b","c","d","e","f","g","h","i","j","k","l","m",
      "n","o","p","q","r","s","t","u","v","w","x","y","z">>

LowerChar(c) ==
    IF \E i \in 1..26 : UpperLetters[i] = c
    THEN LowerLetters[CHOOSE i \in 1..26 : UpperLetters[i] = c]
    ELSE c

\* str.lower()
Lower(s) == [i \in 1..Len(s) |-> LowerChar(s[i])]

DigitChars == <<"0","1","2","3","4","5","6","7","8","9">>
IsDigit(c) == \E i \in 1..10 : DigitChars[i] = c
DigitVal(c) == (CHOOSE i \in 1..10 : DigitChars[i] = c) - 1
AllDigits(s) == \A i \in 1..Len(s) : IsDigit(s[i])

\* value of a string of decimal digits
RECURSIVE DigitsToNat(_)
DigitsToNat(s) ==
    IF s = <<>> THEN 0
    ELSE 10 * DigitsToNat(SubSeq(s, 1, Len(s) - 1)) + DigitVal(s[Len(s)])

\* decimal digits of n, most significant first ("0" for 0)
RECURSIVE NatToDigits(_)
NatToDigits(n) ==
    IF n < 10 THEN <<DigitChars[n + 1]>>
    ELSE NatToDigits(n \div 10) \o <<DigitChars[(n % 10) + 1]>>

\* n written with at least w digits, zero padded (%02d, %04d)
RECURSIVE ZeroPad(_, _)
ZeroPad(s, w) == IF Len(s) >= w THEN s ELSE ZeroPad(<<"0">> \o s, w)

RECURSIVE Pow10(_)
Pow10(k) == IF k = 0 THEN 1 ELSE 10 * Pow10(k - 1)

\* position of the first c in s, 0 when there is none
RECURSIVE IndexOf(_, _)
IndexOf(s, c) ==
    IF s = <<>> THEN 0
    ELSE IF Head(s) = c THEN 1
    ELSE LET r == IndexOf(Tail(s), c) IN IF r = 0 THEN 0 ELSE r + 1

\* str.split(c)
RECURSIVE Split(_, _)
Split(s, c) ==
    LET i == IndexOf(s, c) IN
    IF i = 0 THEN <<s>>
    ELSE <<SubSeq(s, 1, i - 1)>> \o Split(SubSeq(s, i + 1, Len(s)), c)

\* code point order of the characters that occur in bucket keys and in
\* exercise names
CharCode(c) ==
    IF c = "-" THEN 45
    ELSE IF IsDigit(c) THEN 48 + DigitVal(c)
    ELSE IF \E i \in 1..26 : UpperLetters[i] = c
         THEN 64 + (CHOOSE i \in 1..26 : UpperLetters[i] = c)
    ELSE IF \E i \in 1..26 : LowerLetters[i] = c
         THEN 96 + (CHOOSE i \in 1..26 : LowerLetters[i] = c)
    ELSE 128

\* Python's str < str
RECURSIVE StrLess(_, _)
StrLess(a, b) ==
    IF b = <<>> THEN FALSE
    ELSE IF a = <<>> THEN TRUE
    ELSE IF Head(a) = Head(b) THEN StrLess(Tail(a), Tail(b))
    ELSE CharCode(Head(a)) < CharCode(Head(b))

\* a cell that DictReader filled with restval (None)
NoneCell == <<"None">>

\* Python's (x or "")
OrEmpty(x) == IF x = NoneCell THEN <<>> ELSE x

----------------------------------------------------------------------------
(* Numbers                                                                 *)

\* Optional[float]: None, or the rational num/den
NoneF == [some |-> FALSE, num |-> 0, den |-> 1]
SomeF(n, d) == [some |-> TRUE, num |-> n, den |-> d]

\* float(s): [ok |-> FALSE] stands for ValueError.  The grammar is the one
\* of float() over the characters of the model: surrounding whitespace is
\* ignored, then [sign] digits [. digits] or [sign] . digits
PyFloat(s) ==
    LET t == Strip(s)
        signed == t # <<>> /\ Head(t) \in {"+", "-"}
        body == IF signed THEN Tail(t) ELSE t
        sgn == IF signed /\ Head(t) = "-" THEN -1 ELSE 1
        dot == IndexOf(body, ".")
        ip == IF dot = 0 THEN body ELSE SubSeq(body, 1, dot - 1)
        fp == IF dot = 0 THEN <<>> ELSE SubSeq(body, dot + 1, Len(body))
    IN  IF AllDigits(ip) /\ AllDigits(fp) /\ Len(ip) + Len(fp) >= 1
        THEN [ok |-> TRUE, num |-> sgn * DigitsToNat(ip \o fp), den |-> Pow10(Len(fp))]
        ELSE [ok |-> FALSE, num |-> 0, den |-> 1]

\* _to_float with 0.0 returned where nothing is left to parse
ToFloatZeroDefault(s) ==
    LET t == RemoveChar(RemoveChar(Strip(OrEmpty(s)), ","), "\"")
        f == PyFloat(t)
    IN  IF t = <<>> THEN SomeF(0, 1)
        ELSE IF f.ok THEN SomeF(f.num, f.den)
        ELSE NoneF

\* _to_float(s): s may be None
_to_float(s) ==
    LET t == RemoveChar(RemoveChar(Strip(OrEmpty(s)), ","), "\"")
        f == PyFloat(t)
    IN  IF t = <<>> THEN NoneF
        ELSE IF f.ok THEN SomeF(f.num, f.den)
        ELSE NoneF

\* re.sub(r"[^\d\-]", "", s)
RECURSIVE KeepDigitsAndMinus(_)
KeepDigitsAndMinus(s) ==
    IF s = <<>> THEN <<>>
    ELSE IF IsDigit(Head(s)) \/ Head(s) = "-"
         THEN <<Head(s)>> \o KeepDigitsAndMinus(Tail(s))
         ELSE KeepDigitsAndMinus(Tail(s))

\* int(s) for a string of digits and minus signs
PyInt(s) ==
    LET neg == s # <<>> /\ Head(s) = "-"
        body == IF neg THEN Tail(s) ELSE s
    IN  IF body # <<>> /\ AllDigits(body)
        THEN [ok |-> TRUE, val |-> (IF neg THEN -1 ELSE 1) * DigitsToNat(body)]
        ELSE [ok |-> FALSE, val |-> 0]

\* parse_int_like(x): x may be None; [ok |-> FALSE] stands for the
\* ValueError that int() raises and parse_int_like does not catch
parse_int_like(x) ==
    IF x = NoneCell THEN [ok |-> TRUE, val |-> 0]
    ELSE LET s == Strip(x)
             cleaned == KeepDigitsAndMinus(s)
         IN  IF s \in {<<>>, <<"-">>, <<"ENDASH">>} THEN [ok |-> TRUE, val |-> 0]
             ELSE IF cleaned \in {<<>>, <<"-">>} THEN [ok |-> TRUE, val |-> 0]
             ELSE PyInt(cleaned)

\* row[i] if len(row) > i else ""  (i counts from 0 in the source)
CellOrEmpty(row, i) == IF Len(row) > i THEN row[i + 1] ELSE <<>>

\* sum(vals) of a list of floats
RECURSIVE SumF(_)
SumF(vals) ==
    IF vals = <<>> THEN [num |-> 0, den |-> 1]
    ELSE LET r == SumF(Tail(vals))
             h == Head(vals)
         IN  [num |-> h.num * r.den + r.num * h.den, den |-> h.den * r.den]

\* _avg that gives 0 for an empty list
AvgZeroIfEmpty(vals) ==
    IF vals = <<>> THEN SomeF(0, 1)
    ELSE LET t == SumF(vals) IN SomeF(t.num, t.den * Len(vals))

\* _avg(vals)
_avg(vals) ==
    IF vals = <<>> THEN NoneF
    ELSE LET t == SumF(vals) IN SomeF(t.num, t.den * Len(vals))

\* a - b on floats
SubF(a, b) == SomeF(a.num * b.den - b.num * a.den, a.den * b.den)

Abs(n) == IF n < 0 THEN -n ELSE n

\* f"{x:.kf}" for the rational x = num/den: round half to even at k
\* decimals, a value below zero that rounds to zero keeps its sign ("-0")
FormatFixed(x, k) ==
    LET scaled == Abs(x.num) * Pow10(k)
        q == scaled \div x.den
        r == scaled % x.den
        up == 2 * r > x.den \/ (2 * r = x.den /\ q % 2 = 1)
        m == IF up THEN q + 1 ELSE q
        ds == ZeroPad(NatToDigits(m), k + 1)
        ip == SubSeq(ds, 1, Len(ds) - k)
        fp == SubSeq(ds, Len(ds) - k + 1, Len(ds))
        sgn == IF x.num < 0 THEN <<"-">> ELSE <<>>
    IN  sgn \o ip \o (IF k = 0 THEN <<>> ELSE <<".">> \o fp)

\* _fmt_1(x)
_fmt_1(x) == IF ~x.some THEN <<>> ELSE FormatFixed(x, 1)

\* _fmt_0(x)
_fmt_0(x) == IF ~x.some THEN <<>> ELSE FormatFixed(x, 0)

----------------------------------------------------------------------------
(* Calendar: datetime.strptime, strftime, weekday, timedelta               *)

IsLeap(y) == y % 4 = 0 /\ (y % 100 # 0 \/ y % 400 = 0)

DaysInMonthTable == <<31, 28, 31, 30, 31, 30, 31, 31, 30, 31, 30, 31>>
DaysBeforeMonthTable == <<0, 31, 59, 90, 120, 151, 181, 212, 243, 273, 304, 334>>

DaysInMonth(y, m) == IF m = 2 /\ IsLeap(y) THEN 29 ELSE DaysInMonthTable[m]
DaysBeforeMonth(y, m) == DaysBeforeMonthTable[m] + (IF m > 2 /\ IsLeap(y) THEN 1 ELSE 0)
DaysBeforeYear(y) ==
    (y - 1) * 365 + ((y - 1) \div 4) - ((y - 1) \div 100) + ((y - 1) \div 400)

\* date.toordinal(): 0001-01-01 is day 1
ToOrdinal(dt) == DaysBeforeYear(dt.y) + DaysBeforeMonth(dt.y, dt.m) + dt.d

\* date.fromordinal(n)
FromOrdinal(n) ==
    LET n0 == n - 1
        n400 == n0 \div 146097
        r400 == n0 % 146097
        n100 == r400 \div 36524
        r100 == r400 % 36524
        n4 == r100 \div 1461
        r4 == r100 % 1461
        n1 == r4 \div 365
        r1 == r4 % 365
        year == n400 * 400 + 1 + n100 * 100 + n4 * 4 + n1
        leapyear == n1 = 3 /\ (n4 # 24 \/ n100 = 3)
        month0 == (r1 + 50) \div 32
        prec0 == DaysBeforeMonthTable[month0] + (IF month0 > 2 /\ leapyear THEN 1 ELSE 0)
        month == IF prec0 > r1 THEN month0 - 1 ELSE month0
        prec == IF prec0 > r1
                THEN prec0 - (DaysInMonthTable[month]
                              + (IF month = 2 /\ leapyear THEN 1 ELSE 0))
                ELSE prec0
    IN  IF n1 = 4 \/ n100 = 4 THEN [y |-> year - 1, m |-> 12, d |-> 31]
        ELSE [y |-> year, m |-> month, d |-> r1 - prec + 1]

\* date.isoweekday(): Monday is 1
IsoWeekday(dt) == ((ToOrdinal(dt) + 6) % 7) + 1

\* date.weekday(): Monday is 0
Weekday(dt) == (ToOrdinal(dt) + 6) % 7

MonthAbbr ==
    << <<"j","a","n">>, <<"f","e","b">>, <<"m","a","r">>, <<"a","p","r">>,
       <<"m","a","y">>, <<"j","u","n">>, <<"j","u","l">>, <<"a","u","g">>,
       <<"s","e","p">>, <<"o","c","t">>, <<"n","o","v">>, <<"d","e","c">> >>

NoDate == [ok |-> FALSE, y |-> 0, m |-> 0, d |-> 0]

\* value of one strptime directive on one field, -1 when the field does not
\* match the directive's pattern
DirectiveValue(dir, f) ==
    CASE dir = "Y" -> IF Len(f) = 4 /\ AllDigits(f) THEN DigitsToNat(f) ELSE -1
      [] dir = "y" -> IF Len(f) = 2 /\ AllDigits(f)
                      THEN (IF DigitsToNat(f) <= 68 THEN 2000 ELSE 1900) + DigitsToNat(f)
                      ELSE -1
      [] dir = "m" -> IF Len(f) \in 1..2 /\ AllDigits(f) /\ DigitsToNat(f) \in 1..12
                      THEN DigitsToNat(f) ELSE -1
      [] dir = "d" -> IF Len(f) \in 1..2 /\ AllDigits(f) /\ DigitsToNat(f) \in 1..31
                      THEN DigitsToNat(f)
                      ELSE IF Len(f) = 2 /\ f[1] = " " /\ IsDigit(f[2]) /\ f[2] # "0"
                      THEN DigitVal(f[2])
                      ELSE -1
      [] dir = "b" -> IF \E i \in 1..12 : MonthAbbr[i] = Lower(f)
                      THEN CHOOSE i \in 1..12 : MonthAbbr[i] = Lower(f)
                      ELSE -1

\* datetime.strptime(s, pat) for a pattern of three directives joined by
\* one separator character; [ok |-> FALSE] stands for ValueError
Strptime(s, pat) ==
    LET fs == Split(s, pat.sep)
        v(i) == DirectiveValue(pat.dirs[i], fs[i])
        pos(c) == CHOOSE i \in 1..3 : pat.dirs[i] \in c
        yy == v(pos({"Y", "y"}))
        mm == v(pos({"m", "b"}))
        dd == v(pos({"d"}))
    IN  IF Len(fs) # 3 THEN NoDate
        ELSE IF yy < 1 \/ mm < 1 \/ dd < 1 THEN NoDate
        ELSE IF dd > DaysInMonth(yy, mm) THEN NoDate
        ELSE [ok |-> TRUE, y |-> yy, m |-> mm, d |-> dd]

\* dt.strftime("%Y-%m-%d"); the years of the model have four digits
Strftime(dt) ==
    NatToDigits(dt.y) \o <<"-">> \o ZeroPad(NatToDigits(dt.m), 2)
        \o <<"-">> \o ZeroPad(NatToDigits(dt.d), 2)

PatIso == [dirs |-> <<"Y", "m", "d">>, sep |-> "-"]

DATE_PATTERNS ==
    << PatIso,
       [dirs |-> <<"m", "d", "Y">>, sep |-> "/"],
       [dirs |-> <<"m", "d", "y">>, sep |-> "/"],
       [dirs |-> <<"d", "b", "y">>, sep |-> "-"],
       [dirs |-> <<"d", "b", "Y">>, sep |-> "-"] >>

\* the first pattern of pats, from position i on, that parses raw
RECURSIVE FirstMatch(_, _, _)
FirstMatch(raw, pats, i) ==
    IF i > Len(pats) THEN NoDate
    ELSE IF Strptime(raw, pats[i]).ok THEN Strptime(raw, pats[i])
    ELSE FirstMatch(raw, pats, i + 1)

\* _parse_date_to_iso(raw): [ok |-> FALSE] stands for ValueError
_parse_date_to_iso(raw0) ==
    LET raw == Strip(OrEmpty(raw0))
        first == FirstMatch(raw, DATE_PATTERNS, 1)
        raw2 == ReplaceChar(raw, "/", "-")
        second == FirstMatch(raw2, <<PatIso>>, 1)
    IN  IF raw = <<>> THEN [ok |-> FALSE, iso |-> <<>>]
        ELSE IF first.ok THEN [ok |-> TRUE, iso |-> Strftime(first)]
        ELSE IF second.ok THEN [ok |-> TRUE, iso |-> Strftime(second)]
        ELSE [ok |-> FALSE, iso |-> <<>>]

\* dt - timedelta(days=n)
MinusDays(dt, n) == FromOrdinal(ToOrdinal(dt) - n)

\* _monday_week_start(date_iso): [ok |-> FALSE] stands for the ValueError
\* of strptime on a string that is not an ISO date
_monday_week_start(date_iso) ==
    LET dt == Strptime(date_iso, PatIso)
        monday == MinusDays(dt, Weekday(dt))
    IN  IF dt.ok THEN [ok |-> TRUE, iso |-> Strftime(monday)]
        ELSE [ok |-> FALSE, iso |-> <<>>]

----------------------------------------------------------------------------
(* Files and csv                                                           *)

\* A file is absent, or holds a header line and data lines; a line is the
\* list of its cells, <<>> is a blank line, and a file without a header
\* line (header = <<>>) is an empty file.
NoFile == [exists |-> FALSE, header |-> <<>>, rows |-> <<>>]
FileOf(h, rs) == [exists |-> TRUE, header |-> h, rows |-> rs]

OUTPUT_HEADERS == <<"week_start", "avg_weight", "avg_food", "avg_exercise", "avg_net">>

\* the last column named h
LastIndex(header, h) ==
    CHOOSE i \in 1..Len(header) :
        header[i] = h /\ \A j \in (i + 1)..Len(header) : header[j] # h

\* one row of csv.DictReader: every field name is a key, a column that the
\* line is too short for holds None, of two columns of one name the last wins
DictRow(header, line) ==
    [h \in Range(header) |->
        IF LastIndex(header, h) <= Len(line) THEN line[LastIndex(header, h)]
        ELSE NoneCell]

\* list(csv.DictReader(f)): blank lines are skipped
RECURSIVE DictRows(_, _)
DictRows(header, lines) ==
    IF lines = <<>> THEN <<>>
    ELSE IF Head(lines) = <<>> THEN DictRows(header, Tail(lines))
    ELSE <<DictRow(header, Head(lines))>> \o DictRows(header, Tail(lines))

\* r.get(k)
Get(r, k) == IF k \in DOMAIN r THEN r[k] ELSE NoneCell

\* _read_csv(path): [ok |-> FALSE] stands for ValueError "has no headers"
_read_csv(file) ==
    IF file.header = <<>> THEN [ok |-> FALSE, rows |-> <<>>, headers |-> <<>>]
    ELSE [ok |-> TRUE, rows |-> DictRows(file.header, file.rows), headers |-> file.header]

----------------------------------------------------------------------------
(* Schema resolver                                                         *)

ALIASES ==
    << [field |-> "date", aliases |-> <<<<"d","a","t","e">>,
            <<"d","a","y">>,
            <<"e","n","t","r","y","_","d","a","t","e">>,
            <<"l","o","g","_","d","a","t","e">>,
            <<"t","i","m","e","s","t","a","m","p">>>>],
       [field |-> "food", aliases |-> <<<<"f","o","o","d">>,
            <<"c","a","l","o","r","i","e","s">>,
            <<"c","a","l","s">>,
            <<"k","c","a","l">>,
            <<"i","n","t","a","k","e">>,
            <<"e","a","t","e","n">>>>],
       [field |-> "exercise", aliases |-> <<<<"e","x","e","r","c","i","s","e">>,
            <<"e","x","e","r">>,
            <<"e","x","e","r",".">>,
            <<"b","u","r","n","e","d">>,
            <<"c","a","l","o","r","i","e","s","_","b","u","r","n","e","d">>,
            <<"a","c","t","i","v","i","t","y">>>>],
       [field |-> "weight", aliases |-> <<<<"w","e","i","g","h","t">>,
            <<"w","e","i","g","h","t","_","l","b","s">>,
            <<"l","b","s">>,
            <<"b","o","d","y","w","e","i","g","h","t">>,
            <<"s","c","a","l","e","_","w","e","i","g","h","t">>>> ] >>

\* _normalize_header(h)
_normalize_header(h) == ReplaceChar(Lower(Strip(OrEmpty(h))), " ", "_")

\* norm_to_original: the keys, and the header stored under a key (the last
\* header that normalizes to it)
NormKeys(headers) == {_normalize_header(headers[i]) : i \in 1..Len(headers)}
NormToOriginal(headers, key) ==
    headers[CHOOSE i \in 1..Len(headers) :
                /\ _normalize_header(headers[i]) = key
                /\ \A j \in (i + 1)..Len(headers) : _normalize_header(headers[j]) # key]

\* position of the first alias of the list that is a key, 0 when none is
FirstAlias(aliases, headers) ==
    IF \E i \in 1..Len(aliases) : _normalize_header(aliases[i]) \in NormKeys(headers)
    THEN CHOOSE i \in 1..Len(aliases) :
            /\ _normalize_header(aliases[i]) \in NormKeys(headers)
            /\ \A j \in 1..(i - 1) : _normalize_header(aliases[j]) \notin NormKeys(headers)
    ELSE 0

\* _build_column_map(headers): canonical field -> actual header
_build_column_map(headers) ==
    LET resolved == {k \in 1..Len(ALIASES) : FirstAlias(ALIASES[k].aliases, headers) # 0}
        entry(f) == CHOOSE k \in resolved : ALIASES[k].field = f
    IN  [f \in {ALIASES[k].field : k \in resolved} |->
            NormToOriginal(headers,
                _normalize_header(ALIASES[entry(f)].aliases[
                    FirstAlias(ALIASES[entry(f)].aliases, headers)]))]

----------------------------------------------------------------------------
(* Daily record builder                                                    *)

DailyRow(iso, w, f, e) == [date_iso |-> iso, weight |-> w, food |-> f, exercise |-> e]

\* the value of one optional column of a row
OptionalField(r, col_map, field) ==
    IF field \in DOMAIN col_map THEN _to_float(Get(r, col_map[field])) ELSE NoneF

\* ExtractLoop with "break" in place of "continue" in the except branch
RECURSIVE ExtractLoopBreak(_, _)
ExtractLoopBreak(rows, col_map) ==
    IF rows = <<>> THEN <<>>
    ELSE LET r == Head(rows)
             raw_date == Strip(OrEmpty(Get(r, col_map["date"])))
             parsed == _parse_date_to_iso(raw_date)
             rest == ExtractLoopBreak(Tail(rows), col_map)
         IN  IF raw_date = <<>> THEN rest
             ELSE IF ~parsed.ok THEN <<>>
             ELSE <<DailyRow(parsed.iso,
                             OptionalField(r, col_map, "weight"),
                             OptionalField(r, col_map, "food"),
                             OptionalField(r, col_map, "exercise"))>> \o rest

\* the loop of _extract_daily_rows over rows
RECURSIVE ExtractLoop(_, _)
ExtractLoop(rows, col_map) ==
    IF rows = <<>> THEN <<>>
    ELSE LET r == Head(rows)
             raw_date == Strip(OrEmpty(Get(r, col_map["date"])))
             parsed == _parse_date_to_iso(raw_date)
             rest == ExtractLoop(Tail(rows), col_map)
         IN  IF raw_date = <<>> THEN rest
             ELSE IF ~parsed.ok THEN rest
             ELSE <<DailyRow(parsed.iso,
                             OptionalField(r, col_map, "weight"),
                             OptionalField(r, col_map, "food"),
                             OptionalField(r, col_map, "exercise"))>> \o rest

\* _extract_daily_rows(rows, headers): [ok |-> FALSE] stands for the
\* ValueError "must have a Date column"
_extract_daily_rows(rows, headers) ==
    LET col_map == _build_column_map(headers)
    IN  IF "date" \notin DOMAIN col_map
        THEN [ok |-> FALSE, daily |-> <<>>, col_map |-> col_map]
        ELSE [ok |-> TRUE, daily |-> ExtractLoop(rows, col_map), col_map |-> col_map]

----------------------------------------------------------------------------
(* Time-bucket aggregator                                                  *)

\* position of the entry with key k in an insertion-ordered dict, 0 if none
KeyIndex(dict, k) ==
    IF \E i \in 1..Len(dict) : dict[i].key = k
    THEN CHOOSE i \in 1..Len(dict) : dict[i].key = k
    ELSE 0

Keys(dict) == {dict[i].key : i \in 1..Len(dict)}

EmptyBucket(ws) ==
    [key |-> ws, weight |-> <<>>, food |-> <<>>, exercise |-> <<>>, net |-> <<>>]

\* one pass of the loop "for d in daily" over the buckets
AddToBucket(buckets, d, ws) ==
    LET bs == IF KeyIndex(buckets, ws) = 0 THEN buckets \o <<EmptyBucket(ws)>> ELSE buckets
        i == KeyIndex(bs, ws)
        b == bs[i]
    IN  [bs EXCEPT ![i] =
            [key |-> ws,
             weight |-> IF d.weight.some THEN b.weight \o <<d.weight>> ELSE b.weight,
             food |-> IF d.food.some THEN b.food \o <<d.food>> ELSE b.food,
             exercise |-> IF d.exercise.some THEN b.exercise \o <<d.exercise>>
                          ELSE b.exercise,
             net |-> IF d.food.some /\ d.exercise.some
                     THEN b.net \o <<SubF(d.food, d.exercise)>> ELSE b.net]]

\* the buckets after the first n daily records
RECURSIVE BucketsAfter(_, _)
BucketsAfter(daily, n) ==
    IF n = 0 THEN <<>>
    ELSE AddToBucket(BucketsAfter(daily, n - 1), daily[n],
                     _monday_week_start(daily[n].date_iso).iso)

\* _aggregate_weekly(daily): [ok |-> FALSE] stands for the ValueError of
\* _monday_week_start on a date_iso that strptime rejects
_aggregate_weekly(daily) ==
    LET buckets == BucketsAfter(daily, Len(daily))
    IN  IF \E i \in 1..Len(daily) : ~_monday_week_start(daily[i].date_iso).ok
        THEN [ok |-> FALSE, weekly |-> <<>>]
        ELSE [ok |-> TRUE,
              weekly |-> [i \in 1..Len(buckets) |->
                            [key |-> buckets[i].key,
                             avg_weight |-> _avg(buckets[i].weight),
                             avg_food |-> _avg(buckets[i].food),
                             avg_exercise |-> _avg(buckets[i].exercise),
                             avg_net |-> _avg(buckets[i].net)]]]

----------------------------------------------------------------------------
(* Merge-upsert store                                                      *)

\* dict[k] = v on an insertion-ordered dict
Put(dict, k, v) ==
    IF KeyIndex(dict, k) = 0 THEN dict \o <<[key |-> k, row |-> v]>>
    ELSE [dict EXCEPT ![KeyIndex(dict, k)] = [key |-> k, row |-> v]]

\* LoadLoop with "out = {ws: r}" in place of "out[ws] = r"
RECURSIVE LoadLoopKeepLast(_, _)
LoadLoopKeepLast(out, rows) ==
    IF rows = <<>> THEN out
    ELSE LET r == Head(rows)
             ws == Strip(OrEmpty(Get(r, "week_start")))
         IN  LoadLoopKeepLast(IF ws # <<>> THEN <<[key |-> ws, row |-> r]>> ELSE out,
                              Tail(rows))

\* the loop of _load_existing_weekly over the rows read
RECURSIVE LoadLoop(_, _)
LoadLoop(out, rows) ==
    IF rows = <<>> THEN out
    ELSE LET r == Head(rows)
             ws == Strip(OrEmpty(Get(r, "week_start")))
         IN  LoadLoop(IF ws # <<>> THEN Put(out, ws, r) ELSE out, Tail(rows))

\* _load_existing_weekly that takes a file without a header line for an
\* empty table instead of raising
LoadExistingLenient(file) ==
    IF ~file.exists THEN [ok |-> TRUE, table |-> <<>>]
    ELSE [ok |-> TRUE, table |-> LoadLoop(<<>>, _read_csv(file).rows)]

\* _load_existing_weekly(path): [ok |-> FALSE] stands for the ValueError of
\* _read_csv on a file without a header line
_load_existing_weekly(file) ==
    IF ~file.exists THEN [ok |-> TRUE, table |-> <<>>]
    ELSE IF ~_read_csv(file).ok THEN [ok |-> FALSE, table |-> <<>>]
    ELSE [ok |-> TRUE, table |-> LoadLoop(<<>>, _read_csv(file).rows)]

\* new_row of main for one computed week
NewRow(w) ==
    [week_start |-> w.key,
     avg_weight |-> _fmt_1(w.avg_weight),
     avg_food |-> _fmt_0(w.avg_food),
     avg_exercise |-> _fmt_0(w.avg_exercise),
     avg_net |-> _fmt_0(w.avg_net)]

\* the comparison of main replaced by True
RowDiffersAlways(new_row, before) == TRUE

\* existing[ws] != before
RowDiffers(new_row, before) == new_row # before

\* MergeOne without "existing[ws] = new_row" in the else branch
MergeOneKeepStale(st, w) ==
    IF KeyIndex(st.existing, w.key) = 0
    THEN [existing |-> Put(st.existing, w.key, NewRow(w)),
          added |-> st.added + 1, updated |-> st.updated]
    ELSE LET before == st.existing[KeyIndex(st.existing, w.key)].row
         IN  [existing |-> st.existing,
              added |-> st.added,
              updated |-> IF RowDiffers(NewRow(w), before)
                          THEN st.updated + 1 ELSE st.updated]

\* one pass of the loop "for ws, vals in weekly.items()" of main
MergeOne(st, w) ==
    IF KeyIndex(st.existing, w.key) = 0
    THEN [existing |-> Put(st.existing, w.key, NewRow(w)),
          added |-> st.added + 1, updated |-> st.updated]
    ELSE LET before == st.existing[KeyIndex(st.existing, w.key)].row
         IN  [existing |-> Put(st.existing, w.key, NewRow(w)),
              added |-> st.added,
              updated |-> IF RowDiffers(NewRow(w), before)
                          THEN st.updated + 1 ELSE st.updated]

\* sorted(keys): insertion of k into a sorted list
RECURSIVE InsertSorted(_, _)
InsertSorted(sorted, k) ==
    IF sorted = <<>> THEN <<k>>
    ELSE IF StrLess(k, Head(sorted)) THEN <<k>> \o sorted
    ELSE <<Head(sorted)>> \o InsertSorted(Tail(sorted), k)

\* the keys in insertion order, as without sorted()
InsertionOrderKeys(dict) == [i \in 1..Len(dict) |-> dict[i].key]

RECURSIVE SortedKeys(_)
SortedKeys(dict) ==
    IF dict = <<>> THEN <<>>
    ELSE InsertSorted(SortedKeys(SubSeq(dict, 1, Len(dict) - 1)), dict[Len(dict)].key)

\* the line csv.DictWriter writes for a row: None is written as ""
WriteRow(row) ==
    [i \in 1..Len(OUTPUT_HEADERS) |->
        IF OUTPUT_HEADERS[i] \in DOMAIN row THEN OrEmpty(row[OUTPUT_HEADERS[i]]) ELSE <<>>]

\* DictWriter raises ValueError on a row with a key that is no field name
Writable(row) == DOMAIN row \subseteq Range(OUTPUT_HEADERS)

\* _write_weekly(path, rows_by_week): the file is opened with "w" (emptied),
\* the header is written, then the rows in key order up to the first row
\* DictWriter rejects; ok tells whether all rows were written
_write_weekly(rows_by_week) ==
    LET keys == SortedKeys(rows_by_week)
        rowOf(i) == rows_by_week[KeyIndex(rows_by_week, keys[i])].row
        bad == {i \in 1..Len(keys) : ~Writable(rowOf(i))}
        n == IF bad = {} THEN Len(keys)
             ELSE (CHOOSE i \in bad : \A j \in bad : i <= j) - 1
    IN  [ok |-> bad = {},
         file |-> FileOf(OUTPUT_HEADERS, [i \in 1..n |-> WriteRow(rowOf(i))])]

----------------------------------------------------------------------------
(* The weekly merge-upsert run: main of update_weight_history.py           *)

VARIABLES
    inputFile,   \* sample_calories.csv
    outFile,     \* weight_history.csv
    pc,          \* position of main: idle, read, extract, aggregate, load,
                 \*   merge, write, done, aborted
    failedAt,    \* the step that raised, "none" while none did
    preFile,     \* weight_history.csv as it was when the run started
    rerun,       \* the run started right after a completed run on the same input
    input_rows,  \* rows read from the input file
    daily,       \* daily records
    weekly,      \* computed weeks, in insertion order
    existing,    \* the table being merged, in insertion order
    loaded,      \* the table as _load_existing_weekly returned it
    idx,         \* position of the merge loop in weekly
    added,
    updated,
    writes       \* writes of weight_history.csv in this run

mainVars ==
    <<inputFile, outFile, pc, failedAt, preFile, rerun, input_rows, daily, weekly,
      existing, loaded, idx, added, updated, writes>>

\* state of the functions that are also explored on their own inputs
VARIABLES
    aggDaily,    \* the list given to _aggregate_weekly
    aggOut,      \* what it returned
    aggDone      \* whether it was called

aggVars == <<aggDaily, aggOut, aggDone>>

VARIABLES
    wkDate,      \* the date_iso given to _monday_week_start
    wkKey,       \* the bucket key it returned
    wkDone       \* whether it was called

wkVars == <<wkDate, wkKey, wkDone>>

VARIABLES
    exHeader,    \* the header line of the file
    exRows,      \* its lines after the header, as csv.reader splits them
    exOut,       \* what _extract_daily_rows returned
    exDone       \* whether it was called

exVars == <<exHeader, exRows, exOut, exDone>>

VARIABLES
    numCell,     \* the text of the cell
    numShape,    \* "cell": the line has the cell; "missing": the line ends
                 \*   before it; "absent": the header has no such column
    numOut,      \* the format read and the value the cell was given
    numDone      \* whether the line was read

numVars == <<numCell, numShape, numOut, numDone>>

VARIABLES
    prFrame,     \* df: the prepared frame, one row per set
    prDaily,     \* daily: the daily-best frame
    prHist,      \* sub of plot_exercise_history
    prMin,       \* min_sessions of the call of plot_days_since_pr
    prStats,     \* stats of plot_days_since_pr
    prStatsDf,   \* stats_df of plot_days_since_pr
    prPc         \* position of main: prepared, daily, history, done, error

prVars == <<prFrame, prDaily, prHist, prMin, prStats, prStatsDf, prPc>>

VARIABLES
    e1Weight,    \* weight given to estimate_1rm
    e1Reps,      \* reps given to it
    e1Formula,   \* cfg.formula
    e1Out,       \* what it returned, or that it raised
    e1Done       \* whether it was called

e1Vars == <<e1Weight, e1Reps, e1Formula, e1Out, e1Done>>

VARIABLES
    impHist,     \* the history file given to import_calories
    impSample,   \* the sample file of the last import
    impPre,      \* the history file as it was before the last import
    impResult    \* "none" before the first import, then "ok" or the
                 \*   exception the last import raised

impVars == <<impHist, impSample, impPre, impResult>>

VARIABLES
    ldRaw,       \* df of load_and_prepare after the numeric cleanup
    ldFormula    \* cfg.formula

ldVars == <<ldRaw, ldFormula>>

VARIABLES
    scRows,      \* the rows csv.reader gives for the weekly export
    scPos,       \* rows the for loop has consumed
    scInDaily,   \* in_daily
    scRecords,   \* records
    scPc         \* "scan" in the loop, "done" on return, "error" on ValueError

scVars == <<scRows, scPos, scInDaily, scRecords, scPc>>

VARIABLES
    cmHeaders,   \* headers given to _build_column_map
    cmMap,       \* col_map returned
    cmDone       \* the call has returned

cmVars == <<cmHeaders, cmMap, cmDone>>

vars == <<mainVars, aggVars, wkVars, exVars, numVars, prVars, e1Vars, impVars, ldVars, scVars, cmVars>>

\* the state each part of the model leaves alone
notMain == <<aggVars, wkVars, exVars, numVars, prVars, e1Vars, impVars, ldVars, scVars, cmVars>>
notAgg == <<mainVars, wkVars, exVars, numVars, prVars, e1Vars, impVars, ldVars, scVars, cmVars>>
notWk == <<mainVars, aggVars, exVars, numVars, prVars, e1Vars, impVars, ldVars, scVars, cmVars>>
notEx == <<mainVars, aggVars, wkVars, numVars, prVars, e1Vars, impVars, ldVars, scVars, cmVars>>
notNum == <<mainVars, aggVars, wkVars, exVars, prVars, e1Vars, impVars, ldVars, scVars, cmVars>>
notPr == <<mainVars, aggVars, wkVars, exVars, numVars, e1Vars, impVars, ldVars, scVars, cmVars>>
notE1 == <<mainVars, aggVars, wkVars, exVars, numVars, prVars, impVars, ldVars, scVars, cmVars>>
notImp == <<mainVars, aggVars, wkVars, exVars, numVars, prVars, e1Vars, ldVars, scVars, cmVars>>
notLd == <<mainVars, aggVars, wkVars, exVars, numVars, e1Vars, impVars, scVars, cmVars>>
notSc == <<mainVars, aggVars, wkVars, exVars, numVars, prVars, e1Vars, impVars, ldVars, cmVars>>
notCm == <<mainVars, aggVars, wkVars, exVars, numVars, prVars, e1Vars, impVars, ldVars, scVars>>

\* input files of the model
HeaderFull ==
    << <<"D","a","t","e">>, <<"F","o","o","d">>, <<"E","x","e","r",".">>,
       <<"W","e","i","g","h","t">> >>
HeaderDay == << <<" ","D","a","y"," ">>, <<"C","a","l","o","r","i","e","s">> >>
HeaderNoDate == << <<"F","o","o","d">>, <<"W","e","i","g","h","t">> >>

SampleRows ==
    { << <<"2","0","2","5","-","1","2","-","2","2">>, <<"2","0","0","0">>,
         <<"3","0","0">>, <<"1","8","0">> >>,
      << <<"1","2","/","2","8","/","2","5">>, <<"1","8","0","0">>, <<>> >>,
      << <<"2","9","-","D","e","c","-","2","5">>, <<"1",",","7","2","9">>,
         <<"-">>, <<"1","7","9",".","5">> >>,
      << <<"n","/","a">>, <<"1">>, <<"1">>, <<"1">> >> }

SeqsUpTo(S, n) == UNION {[1..k -> S] : k \in 0..n}

\* the lists of at most n different members of S
ListsUpTo(S, n) ==
    UNION {{q \in [1..k -> S] : \A i, j \in 1..k : i # j => q[i] # q[j]} : k \in 0..n}

InputFiles ==
    {NoFile, FileOf(<<>>, <<>>), FileOf(HeaderNoDate, <<>>)}
    \cup {FileOf(HeaderFull, rs) : rs \in ListsUpTo(SampleRows, MaxRows)}
    \cup {FileOf(HeaderDay, rs) : rs \in ListsUpTo(SampleRows, 1)}

\* a table written by an earlier run on input that is not among InputFiles
LegacyFile ==
    FileOf(OUTPUT_HEADERS,
           << << <<"2","0","2","5","-","1","2","-","1","5">>, <<"1","8","0",".","0">>,
                 <<"2","0","0","0">>, <<"3","0","0">>, <<"1","7","0","0">> >> >>)

InitialOutFiles == {NoFile, FileOf(<<>>, <<>>), LegacyFile}

MainInit ==
    /\ inputFile = NoFile
    /\ outFile \in InitialOutFiles
    /\ pc = "idle"
    /\ failedAt = "none"
    /\ preFile = outFile
    /\ rerun = FALSE
    /\ input_rows = <<>>
    /\ daily = <<>>
    /\ weekly = <<>>
    /\ existing = <<>>
    /\ loaded = <<>>
    /\ idx = 1
    /\ added = 0
    /\ updated = 0
    /\ writes = 0

Abort(step) ==
    /\ pc' = "aborted"
    /\ failedAt' = step

\* main up to "if not input_path.exists(): raise SystemExit"
MainStart ==
    /\ pc \in {"idle", "done", "aborted"}
    /\ \E f \in InputFiles :
        /\ inputFile' = f
        /\ rerun' = (pc = "done" /\ f = inputFile)
        /\ IF f.exists THEN pc' = "read" /\ failedAt' = "none"
           ELSE Abort("input_missing")
    /\ preFile' = outFile
    /\ input_rows' = <<>>
    /\ daily' = <<>>
    /\ weekly' = <<>>
    /\ existing' = <<>>
    /\ loaded' = <<>>
    /\ idx' = 1
    /\ added' = 0
    /\ updated' = 0
    /\ writes' = 0
    /\ UNCHANGED outFile
    /\ UNCHANGED notMain

\* input_rows, input_headers = _read_csv(input_path)
ReadInput ==
    /\ pc = "read"
    /\ IF _read_csv(inputFile).ok
       THEN /\ input_rows' = _read_csv(inputFile).rows
            /\ pc' = "extract"
            /\ UNCHANGED failedAt
       ELSE /\ Abort("read")
            /\ UNCHANGED input_rows
    /\ UNCHANGED <<inputFile, outFile, preFile, rerun, daily, weekly, existing, loaded,
                   idx, added, updated, writes>>
    /\ UNCHANGED notMain

\* daily, col_map = _extract_daily_rows(input_rows, input_headers)
ExtractDaily ==
    /\ pc = "extract"
    /\ LET r == _extract_daily_rows(input_rows, inputFile.header)
       IN  IF r.ok
           THEN /\ daily' = r.daily
                /\ pc' = "aggregate"
                /\ UNCHANGED failedAt
           ELSE /\ Abort("extract")
                /\ UNCHANGED daily
    /\ UNCHANGED <<inputFile, outFile, preFile, rerun, input_rows, weekly, existing,
                   loaded, idx, added, updated, writes>>
    /\ UNCHANGED notMain

\* weekly = _aggregate_weekly(daily)
AggregateWeekly ==
    /\ pc = "aggregate"
    /\ LET r == _aggregate_weekly(daily)
       IN  IF r.ok
           THEN /\ weekly' = r.weekly
                /\ pc' = "load"
                /\ UNCHANGED failedAt
           ELSE /\ Abort("aggregate")
                /\ UNCHANGED weekly
    /\ UNCHANGED <<inputFile, outFile, preFile, rerun, input_rows, daily, existing,
                   loaded, idx, added, updated, writes>>
    /\ UNCHANGED notMain

\* existing = _load_existing_weekly(output_path); added = 0; updated = 0
LoadExisting ==
    /\ pc = "load"
    /\ LET r == _load_existing_weekly(outFile)
       IN  IF r.ok
           THEN /\ existing' = r.table
                /\ loaded' = r.table
                /\ pc' = IF weekly = <<>> THEN "write" ELSE "merge"
                /\ UNCHANGED failedAt
           ELSE /\ Abort("load")
                /\ UNCHANGED <<existing, loaded>>
    /\ idx' = 1
    /\ added' = 0
    /\ updated' = 0
    /\ UNCHANGED <<inputFile, outFile, preFile, rerun, input_rows, daily, weekly, writes>>
    /\ UNCHANGED notMain

\* one pass of "for ws, vals in weekly.items()"
MergeBucket ==
    /\ pc = "merge"
    /\ idx <= Len(weekly)
    /\ LET r == MergeOne([existing |-> existing, added |-> added, updated |-> updated],
                         weekly[idx])
       IN  /\ existing' = r.existing
           /\ added' = r.added
           /\ updated' = r.updated
    /\ idx' = idx + 1
    /\ pc' = IF idx = Len(weekly) THEN "write" ELSE "merge"
    /\ UNCHANGED <<inputFile, outFile, failedAt, preFile, rerun, input_rows, daily,
                   weekly, loaded, writes>>
    /\ UNCHANGED notMain

\* _write_weekly(output_path, existing) and the summary that main prints
WriteWeekly ==
    /\ pc = "write"
    /\ LET r == _write_weekly(existing)
       IN  /\ outFile' = r.file
           /\ IF r.ok THEN pc' = "done" /\ UNCHANGED failedAt
              ELSE Abort("write")
    /\ writes' = writes + 1
    /\ UNCHANGED <<inputFile, preFile, rerun, input_rows, daily, weekly, existing,
                   loaded, idx, added, updated>>
    /\ UNCHANGED notMain

MainNext ==
    \/ MainStart
    \/ ReadInput
    \/ ExtractDaily
    \/ AggregateWeekly
    \/ LoadExisting
    \/ MergeBucket
    \/ WriteWeekly

----------------------------------------------------------------------------
(* _aggregate_weekly applied to a list of daily records                    *)

\* date_iso values of the daily records: Monday and Sunday of one week and
\* the Monday after
AggDates ==
    { <<"2","0","2","5","-","1","2","-","2","2">>,
      <<"2","0","2","5","-","1","2","-","2","8">>,
      <<"2","0","2","5","-","1","2","-","2","9">> }

AggRecords ==
    {DailyRow(d, w, f, e) :
        d \in AggDates,
        w \in {NoneF, SomeF(361, 2)},
        f \in {NoneF, SomeF(2000, 1), SomeF(1800, 1)},
        e \in {NoneF, SomeF(300, 1)}}

AggIdle == aggDaily = <<>> /\ aggOut = <<>> /\ aggDone = FALSE

AggInit ==
    /\ aggDaily \in SeqsUpTo(AggRecords, MaxDaily)
    /\ aggOut = <<>>
    /\ aggDone = FALSE

\* weekly = _aggregate_weekly(daily)
Aggregate ==
    /\ ~aggDone
    /\ aggOut' = _aggregate_weekly(aggDaily).weekly
    /\ aggDone' = TRUE
    /\ UNCHANGED aggDaily
    /\ UNCHANGED notAgg

----------------------------------------------------------------------------
(* _monday_week_start applied to a date                                    *)

\* years of the dates: before and after a leap year divisible by 400, a
\* leap year, a year after one, and a year divisible by 100 that is no leap
\* year
ModelYears == {1999, 2000, 2024, 2025, 2100}

ModelDates ==
    {dt \in [y : ModelYears, m : 1..12, d : 1..31] : dt.d <= DaysInMonth(dt.y, dt.m)}

WkIdle == wkDate = <<>> /\ wkKey = <<>> /\ wkDone = FALSE

WkInit ==
    /\ wkDate \in {Strftime(dt) : dt \in ModelDates}
    /\ wkKey = <<>>
    /\ wkDone = FALSE

\* ws = _monday_week_start(d.date_iso)
MondayWeekStart ==
    /\ ~wkDone
    /\ wkKey' = _monday_week_start(wkDate).iso
    /\ wkDone' = TRUE
    /\ UNCHANGED wkDate
    /\ UNCHANGED notWk

----------------------------------------------------------------------------
(* _extract_daily_rows applied to the rows of a file with a date column    *)

\* date cells of the model: the five DATE_PATTERNS, the "/" to "-" fallback,
\* a day that is not in the month, surrounding blanks, empty and blank
\* cells, and text that is no date. iso is the date CPython's strptime and
\* strftime give for the cell, <<>> where every pattern raises or the cell
\* strips to nothing
DateCells ==
    { [cell |-> <<"2","0","2","5","-","1","2","-","2","2">>,
       iso |-> <<"2","0","2","5","-","1","2","-","2","2">>],
      [cell |-> <<"1","2","/","2","8","/","2","0","2","5">>,
       iso |-> <<"2","0","2","5","-","1","2","-","2","8">>],
      [cell |-> <<"1","2","/","2","8","/","2","5">>,
       iso |-> <<"2","0","2","5","-","1","2","-","2","8">>],
      [cell |-> <<"2","9","-","D","e","c","-","2","0","2","5">>,
       iso |-> <<"2","0","2","5","-","1","2","-","2","9">>],
      [cell |-> <<"2","9","-","D","e","c","-","2","5">>,
       iso |-> <<"2","0","2","5","-","1","2","-","2","9">>],
      [cell |-> <<"2","0","2","5","/","1","2","/","2","2">>,
       iso |-> <<"2","0","2","5","-","1","2","-","2","2">>],
      [cell |-> <<"2","0","2","5","-","0","2","-","3","0">>,
       iso |-> <<>>],
      [cell |-> <<" ","1","/","5","/","2","5"," ">>,
       iso |-> <<"2","0","2","5","-","0","1","-","0","5">>],
      [cell |-> <<>>,
       iso |-> <<>>],
      [cell |-> <<" "," "," ">>,
       iso |-> <<>>],
      [cell |-> <<"n","/","a">>,
       iso |-> <<>>],
      [cell |-> <<"2","2",".","1","2",".","2","0","2","5">>,
       iso |-> <<>>] }

\* cells of the food column, with the value float() gives after commas and
\* quotes are removed, NoneF where float() raises or nothing is left
FoodCells ==
    { [cell |-> <<"3","0","0">>, val |-> SomeF(300, 1)],
      [cell |-> <<"1",",","7","2","9">>, val |-> SomeF(1729, 1)],
      [cell |-> <<"x">>, val |-> NoneF],
      [cell |-> <<"-">>, val |-> NoneF],
      [cell |-> <<>>, val |-> NoneF] }

HeaderDateFood == << <<"D","a","t","e">>, <<"F","o","o","d">> >>
HeaderCaloriesDay == << <<"C","a","l","o","r","i","e","s">>, <<" ","D","a","y"," ">> >>
ExHeaders == {HeaderDateFood, HeaderCaloriesDay}

\* the column of the date in the lines under header h
DatePos(h) == IF h = HeaderDateFood THEN 1 ELSE 2
FoodPos(h) == 3 - DatePos(h)

\* the lines of the model under header h: every date cell beside a food
\* cell that parses, every food cell beside a date cell that parses, and a
\* line that ends after its first cell
ExLines(h) ==
    LET line(d, f) == IF DatePos(h) = 1 THEN <<d, f>> ELSE <<f, d>>
        d0 == <<"2","0","2","5","-","1","2","-","2","2">>
        f0 == <<"3","0","0">>
    IN  {line(d.cell, f0) : d \in DateCells}
        \cup {line(d0, f.cell) : f \in FoodCells}
        \cup {<<line(d0, f0)[1]>>}

ExIdle == exHeader = <<>> /\ exRows = <<>> /\ exOut = <<>> /\ exDone = FALSE

ExInit ==
    /\ exHeader \in ExHeaders
    /\ exRows \in SeqsUpTo(ExLines(exHeader), MaxRows)
    /\ exOut = <<>>
    /\ exDone = FALSE

\* daily, col_map = _extract_daily_rows(input_rows, input_headers) on the
\* rows csv.DictReader makes of the lines
ExtractRows ==
    /\ ~exDone
    /\ exOut' = _extract_daily_rows(DictRows(exHeader, exRows), exHeader)
    /\ exDone' = TRUE
    /\ UNCHANGED <<exHeader, exRows>>
    /\ UNCHANGED notEx

----------------------------------------------------------------------------
(* Numeric normalization of one exercise-calories cell under both formats  *)

\* characters of the cells: digits, the thousands separator, the two
\* dashes, the two blanks and the decimal point
NumChars == {"1", "7", ",", "-", "ENDASH", " ", "NBSP", "."}

NumSamples ==
    { <<"1",",","7","2","9">>, <<"2",",","0","2","4","NBSP">>,
      <<"\"","1",",","2","2","2","\"">> }

NumCells == SeqsUpTo(NumChars, MaxStrLen) \cup NumSamples

NumShapes == {"cell", "missing", "absent"}

NumIdle == numCell = <<>> /\ numShape = "cell" /\ numOut = <<>> /\ numDone = FALSE

NumInit ==
    /\ numShape \in NumShapes
    /\ numCell \in (IF numShape = "cell" THEN NumCells ELSE {<<>>})
    /\ numOut = <<>>
    /\ numDone = FALSE

\* the cells of a line before the exercise cell
DateCell0 == <<"2","2","-","D","e","c","-","2","5">>
BudgetCell0 == <<"2",",","0","0","0">>
FoodCell0 == <<"1",",","8","0","0">>

\* read_daily_summary on one line of the Daily Summary table of the weekly
\* export: exer = row[3] if len(row) > 3 else "", then parse_int_like(exer)
NormalizeWeekly ==
    /\ ~numDone
    /\ LET row == IF numShape = "cell"
                  THEN <<DateCell0, BudgetCell0, FoodCell0, numCell>>
                  ELSE <<DateCell0, BudgetCell0, FoodCell0>>
           v == parse_int_like(CellOrEmpty(row, 3))
       IN  numOut' = [format |-> "weekly", ok |-> v.ok,
                      value |-> IF v.ok THEN SomeF(v.val, 1) ELSE NoneF]
    /\ numDone' = TRUE
    /\ UNCHANGED <<numCell, numShape>>
    /\ UNCHANGED notNum

\* _extract_daily_rows on one line of the daily log: the exercise column
\* is looked up in the column map and its cell given to _to_float
NormalizeDaily ==
    /\ ~numDone
    /\ LET header == IF numShape = "absent"
                     THEN << <<"D","a","t","e">>, <<"F","o","o","d">> >>
                     ELSE << <<"D","a","t","e">>, <<"F","o","o","d">>,
                             <<"E","x","e","r",".">> >>
           line == IF numShape = "cell"
                   THEN << <<"2","0","2","5","-","1","2","-","2","2">>, FoodCell0, numCell>>
                   ELSE << <<"2","0","2","5","-","1","2","-","2","2">>, FoodCell0>>
           out == _extract_daily_rows(DictRows(header, <<line>>), header)
       IN  numOut' = [format |-> "daily", ok |-> out.ok /\ Len(out.daily) = 1,
                      value |-> IF out.ok /\ Len(out.daily) = 1
                                THEN out.daily[1].exercise ELSE NoneF]
    /\ numDone' = TRUE
    /\ UNCHANGED <<numCell, numShape>>
    /\ UNCHANGED notNum

----------------------------------------------------------------------------
(* Daily-best reduction and PR statistics: workout_history.py              *)

\* a row of the prepared frame; Date is a Timestamp, counted in hours
SetRow(d, ex, est) == [Date |-> d, Exercise |-> ex, est_1rm |-> est]

\* max of a non-empty set of numbers
MaxOf(S) == CHOOSE x \in S : \A y \in S : y <= x
MinOf(S) == CHOOSE x \in S : \A y \in S : x <= y

\* the order of the group keys (Date, Exercise Name) of groupby
KeyLess(a, b) == a[1] < b[1] \/ (a[1] = b[1] /\ StrLess(a[2], b[2]))

\* a finite set of group keys in ascending order
RECURSIVE SortedGroupKeys(_)
SortedGroupKeys(S) ==
    IF S = {} THEN <<>>
    ELSE LET m == CHOOSE x \in S : \A y \in S \ {x} : KeyLess(x, y)
         IN  <<m>> \o SortedGroupKeys(S \ {m})

\* df.groupby([DATE_COL, EXERCISE_COL], as_index=False)["est_1rm"].max():
\* one row per key in key order, labelled 0, 1, ... by the new RangeIndex
GroupMax(df) ==
    LET keys == SortedGroupKeys({<<df[i].Date, df[i].Exercise>> : i \in 1..Len(df)})
    IN  [k \in 1..Len(keys) |->
            [label |-> k - 1, Date |-> keys[k][1], Exercise |-> keys[k][2],
             est_1rm |-> MaxOf({df[i].est_1rm : i \in {j \in 1..Len(df) :
                                    <<df[j].Date, df[j].Exercise>> = keys[k]}})]]

\* best_1rm_per_day(df): .sort_values([EXERCISE_COL, DATE_COL]) of GroupMax;
\* no two rows have the same exercise and date, and the rows keep their
\* labels
RECURSIVE SortByExerciseDate(_)
SortByExerciseDate(S) ==
    IF S = {} THEN <<>>
    ELSE LET m == CHOOSE x \in S : \A y \in S \ {x} :
                      \/ StrLess(x.Exercise, y.Exercise)
                      \/ x.Exercise = y.Exercise /\ x.Date < y.Date
         IN  <<m>> \o SortByExerciseDate(S \ {m})

best_1rm_per_day(df) == SortByExerciseDate(Range(GroupMax(df)))

\* g.sort_values(DATE_COL) of rows of pairwise different dates
RECURSIVE SortRowsByDate(_)
SortRowsByDate(S) ==
    IF S = {} THEN <<>>
    ELSE LET m == CHOOSE x \in S : \A y \in S \ {x} : x.Date < y.Date
         IN  <<m>> \o SortRowsByDate(S \ {m})

SortByDate(g) == SortRowsByDate(Range(g))

\* the last label with the largest estimate, as idxmax over reversed rows
IdxMaxLast(g) ==
    LET top == MaxOf({g[i].est_1rm : i \in 1..Len(g)})
    IN  g[MaxOf({i \in 1..Len(g) : g[i].est_1rm = top})].label

\* g["est_1rm"].idxmax(): the label of the first row with the largest value
idxmax(g) ==
    LET top == MaxOf({g[i].est_1rm : i \in 1..Len(g)})
    IN  g[MinOf({i \in 1..Len(g) : g[i].est_1rm = top})].label

\* g.loc[label, DATE_COL]
LocDate(g, label) == g[CHOOSE i \in 1..Len(g) : g[i].label = label].Date

\* Timedelta.days of a difference of Timestamps
TimedeltaDays(hours) == IF hours >= 0 THEN hours \div 24 ELSE -((-hours + 23) \div 24)

\* the tuple appended to stats for the group g of exercise ex
StatOf(ex, g) ==
    LET pr_date == LocDate(g, idxmax(g))
        last_date == MaxOf({g[i].Date : i \in 1..Len(g)})
    IN  [exercise |-> ex, sessions |-> Len(g),
         pr_1rm |-> MaxOf({g[i].est_1rm : i \in 1..Len(g)}),
         pr_date |-> pr_date, last_date |-> last_date,
         days_since_pr |-> TimedeltaDays(last_date - pr_date)]

\* the exercise names of a frame in the order groupby visits them
RECURSIVE SortedNames(_)
SortedNames(S) ==
    IF S = {} THEN <<>>
    ELSE LET m == CHOOSE x \in S : \A y \in S \ {x} : StrLess(x, y)
         IN  <<m>> \o SortedNames(S \ {m})

\* the loop "for ex, g in daily.groupby(EXERCISE_COL)" over the names exs
RECURSIVE StatsLoop(_, _, _)
StatsLoop(dailyBest, exs, min_sessions) ==
    IF exs = <<>> THEN <<>>
    ELSE LET ex == Head(exs)
             g == SortByDate(SelectSeq(dailyBest, LAMBDA row : row.Exercise = ex))
             rest == StatsLoop(dailyBest, Tail(exs), min_sessions)
         IN  IF Len(g) < min_sessions THEN rest
             ELSE <<StatOf(ex, g)>> \o rest

Stats(dailyBest, min_sessions) ==
    StatsLoop(dailyBest, SortedNames({dailyBest[i].Exercise : i \in 1..Len(dailyBest)}), min_sessions)

\* the orders .sort_values("days_since_pr", ascending=False) may give stats
\* in: the sort is not a stable one, so rows of equal days_since_pr may come
\* in either order
Reorderings(q) ==
    {[i \in 1..Len(q) |-> q[p[i]]] :
        p \in {f \in [1..Len(q) -> 1..Len(q)] : \A i, j \in 1..Len(q) : i # j => f[i] # f[j]}}
DescendingOrders(stats) ==
    {q \in Reorderings(stats) :
        \A i \in 1..(Len(q) - 1) : q[i].days_since_pr >= q[i + 1].days_since_pr}

\* .head(top_n)
HeadN(q, n) == SubSeq(q, 1, IF n < Len(q) THEN n ELSE Len(q))

\* sub["est_1rm"].cummax()
RECURSIVE CumMax(_)
CumMax(vals) ==
    IF Len(vals) <= 1 THEN vals
    ELSE LET front == CumMax(SubSeq(vals, 1, Len(vals) - 1))
             v == vals[Len(vals)]
         IN  front \o <<IF v > front[Len(front)] THEN v ELSE front[Len(front)]>>

\* sub of plot_exercise_history with its pr and is_pr columns; the rows of
\* one date of exercises that differ in case only do not occur in the model
ExerciseHistoryOf(dailyBest, exercise) ==
    LET sub == SortByDate(SelectSeq(dailyBest,
                   LAMBDA row : Lower(row.Exercise) = Lower(exercise)))
        pr == CumMax([i \in 1..Len(sub) |-> sub[i].est_1rm])
    IN  [i \in 1..Len(sub) |->
            [Date |-> sub[i].Date, est_1rm |-> sub[i].est_1rm, pr |-> pr[i],
             is_pr |-> sub[i].est_1rm >= pr[i]]]

\* three session times: midnight of a day, six o'clock of the next day, and
\* midnight three days later
SessionTimes == {0, 30, 96}
ExerciseNames == { <<"S","q","u","a","t">>, <<"B","e","n","c","h">> }
Estimates == {200, 210, 220}
SetRows == {SetRow(d, ex, est) : d \in SessionTimes, ex \in ExerciseNames, est \in Estimates}

\* the logs of the model list their sets in the order they were performed
PreparedFrames ==
    {df \in SeqsUpTo(SetRows, MaxSets) : \A i \in 1..(Len(df) - 1) : df[i].Date <= df[i + 1].Date}

\* --exercise, --min_sessions and --top_n of the model
ExerciseArgs == { <<"b","e","n","c","h">>, <<"D","i","p">> }
MinSessionsArgs == {2, 3}
TopNArgs == {1, 20}

PrIdle ==
    /\ prFrame = <<>>
    /\ prDaily = <<>>
    /\ prHist = <<>>
    /\ prMin = 0
    /\ prStats = <<>>
    /\ prStatsDf = <<>>
    /\ prPc = "idle"

PrInit ==
    /\ prFrame \in PreparedFrames
    /\ prDaily = <<>>
    /\ prHist = <<>>
    /\ prMin = 0
    /\ prStats = <<>>
    /\ prStatsDf = <<>>
    /\ prPc = "prepared"

\* daily = best_1rm_per_day(df)
BestPerDay ==
    /\ prPc = "prepared"
    /\ prDaily' = best_1rm_per_day(prFrame)
    /\ prPc' = "daily"
    /\ UNCHANGED <<prFrame, prHist, prMin, prStats, prStatsDf>>
    /\ UNCHANGED notPr

\* plot_exercise_history(daily, args.exercise): ValueError when no row is
\* of the exercise
PlotExerciseHistory ==
    /\ prPc = "daily"
    /\ \E exercise \in ExerciseArgs :
          LET sub == ExerciseHistoryOf(prDaily, exercise)
          IN  /\ prHist' = sub
              /\ prPc' = IF sub = <<>> THEN "error" ELSE "history"
    /\ UNCHANGED <<prFrame, prDaily, prMin, prStats, prStatsDf>>
    /\ UNCHANGED notPr

\* plot_days_since_pr(daily, top_n, min_sessions): ValueError when no
\* exercise has min_sessions sessions
PlotDaysSincePr ==
    /\ prPc \in {"daily", "history"}
    /\ \E min_sessions \in MinSessionsArgs, top_n \in TopNArgs :
          LET stats == Stats(prDaily, min_sessions)
          IN  /\ prMin' = min_sessions
              /\ prStats' = stats
              /\ IF stats = <<>>
                 THEN prStatsDf' = <<>> /\ prPc' = "error"
                 ELSE /\ prStatsDf' \in {HeadN(q, top_n) : q \in DescendingOrders(stats)}
                      /\ prPc' = "done"
    /\ UNCHANGED <<prFrame, prDaily, prHist>>
    /\ UNCHANGED notPr

----------------------------------------------------------------------------
(* estimate_1rm of workout_history.py                                      *)

\* min(a, b)
Min2(a, b) == IF a <= b THEN a ELSE b

\* the ValueError "Unknown formula", and the ZeroDivisionError of a float
\* division by 0.0
NoEstimate == [ok |-> FALSE, val |-> NoneF]

\* a / b for floats
DivF(a, b) ==
    IF b.num = 0 THEN NoEstimate
    ELSE [ok |-> TRUE,
          val |-> IF b.num > 0 THEN SomeF(a.num * b.den, a.den * b.num)
                  ELSE SomeF(-(a.num * b.den), -(a.den * b.num))]

\* a * b for floats
MulF(a, b) == SomeF(a.num * b.num, a.den * b.den)

\* estimate_1rm without "reps = min(reps, 36)"
EstimateNoCap(weight, reps, formula) ==
    IF reps <= 1 THEN [ok |-> TRUE, val |-> weight]
    ELSE IF Lower(formula) = <<"e","p","l","e","y">>
    THEN [ok |-> TRUE, val |-> MulF(weight, SomeF(30 + reps, 30))]
    ELSE IF Lower(formula) = <<"b","r","z","y","c","k","i">>
    THEN LET q == DivF(SomeF(36, 1), SomeF(37 - reps, 1))
         IN  IF q.ok THEN [ok |-> TRUE, val |-> MulF(weight, q.val)] ELSE NoEstimate
    ELSE NoEstimate

\* estimate_1rm(weight, reps, cfg): weight is a float, reps an int, formula
\* the text of cfg.formula
estimate_1rm(weight, reps, formula) ==
    IF reps <= 1 THEN [ok |-> TRUE, val |-> weight]
    ELSE IF Lower(formula) = <<"e","p","l","e","y">>
    THEN [ok |-> TRUE, val |-> MulF(weight, SomeF(30 + reps, 30))]
    ELSE IF Lower(formula) = <<"b","r","z","y","c","k","i">>
    THEN LET q == DivF(SomeF(36, 1), SomeF(37 - Min2(reps, 36), 1))
         IN  IF q.ok THEN [ok |-> TRUE, val |-> MulF(weight, q.val)] ELSE NoEstimate
    ELSE NoEstimate

\* weights of the model: none, a whole and a half number of pounds, and a
\* negative entry
E1Weights == {SomeF(0, 1), SomeF(100, 1), SomeF(225, 2), SomeF(-10, 1)}

\* reps of the model, from below 1 to above the cap of 36
E1Reps == (-1)..MaxReps

\* formula selectors of the model
E1Formulas ==
    { <<"e","p","l","e","y">>, <<"E","p","l","e","y">>,
      <<"b","r","z","y","c","k","i">>, <<"B","R","Z","Y","C","K","I">>,
      <<"l","o","m","b","a","r","d","i">>, <<>> }

E1Idle ==
    /\ e1Weight = NoneF
    /\ e1Reps = 0
    /\ e1Formula = <<>>
    /\ e1Out = NoEstimate
    /\ e1Done = FALSE

E1Init ==
    /\ e1Weight \in E1Weights
    /\ e1Reps \in E1Reps
    /\ e1Formula \in E1Formulas
    /\ e1Out = NoEstimate
    /\ e1Done = FALSE

\* estimate_1rm(w, r, cfg)
Estimate1rm ==
    /\ ~e1Done
    /\ e1Out' = estimate_1rm(e1Weight, e1Reps, e1Formula)
    /\ e1Done' = TRUE
    /\ UNCHANGED <<e1Weight, e1Reps, e1Formula>>
    /\ UNCHANGED notE1

----------------------------------------------------------------------------
(* The simple weight importer: importer.py                                 *)

DateField == <<"d","a","t","e">>
ImpFields == <<DateField, <<"c","a","l","o","r","i","e","s">> >>

\* a file of no bytes
EmptyFile == FileOf(<<>>, <<>>)

\* read_sample_calories(file_path): list(csv.DictReader(f)); ok is FALSE for
\* the FileNotFoundError of open
read_sample_calories(file) ==
    IF ~file.exists THEN [ok |-> FALSE, data |-> <<>>]
    ELSE [ok |-> TRUE, data |-> DictRows(file.header, file.rows)]

\* existing_dates of append_to_weight_history; ok is FALSE for the KeyError
\* of row['date'] on a file with rows and no date column
ExistingDates(hist) ==
    LET rows == IF hist.exists THEN DictRows(hist.header, hist.rows) ELSE <<>>
    IN  IF rows # <<>> /\ DateField \notin Range(hist.header)
        THEN [ok |-> FALSE, dates |-> {}]
        ELSE [ok |-> TRUE, dates |-> {rows[i][DateField] : i \in 1..Len(rows)}]

\* the line DictWriter(fieldnames=["date", "calories"]) writes for an entry:
\* a missing key and None are written as ""
ImpLine(entry) ==
    [i \in 1..Len(ImpFields) |->
        IF ImpFields[i] \in DOMAIN entry THEN OrEmpty(entry[ImpFields[i]]) ELSE <<>>]

\* the loop "for entry in data": the lines written, and how the loop ended:
\* "KeyError" for an entry without a date key, "ValueError" for an entry
\* DictWriter rejects because of a key that is no field name
RECURSIVE AppendLoop(_, _)
AppendLoop(data, existing_dates) ==
    IF data = <<>> THEN [result |-> "ok", lines |-> <<>>]
    ELSE LET entry == Head(data)
             rest == AppendLoop(Tail(data), existing_dates)
         IN  IF DateField \notin DOMAIN entry THEN [result |-> "KeyError", lines |-> <<>>]
             ELSE IF entry[DateField] \in existing_dates THEN rest
             ELSE IF ~(DOMAIN entry \subseteq Range(ImpFields))
                  THEN [result |-> "ValueError", lines |-> <<>>]
             ELSE [result |-> rest.result, lines |-> <<ImpLine(entry)>> \o rest.lines]

\* append_to_weight_history(data, weight_history_path): the file is opened
\* for append, the header is written when the file has no bytes, and what
\* was written before an exception stays in the file
append_to_weight_history(data, hist) ==
    LET ex == ExistingDates(hist)
        opened == IF ~hist.exists \/ hist = EmptyFile THEN FileOf(ImpFields, <<>>) ELSE hist
        loop == AppendLoop(data, ex.dates)
    IN  IF ~ex.ok THEN [result |-> "KeyError", file |-> hist]
        ELSE [result |-> loop.result,
              file |-> FileOf(opened.header, opened.rows \o loop.lines)]

\* import_calories(sample_file, weight_history_file)
import_calories(sample, hist) ==
    IF ~read_sample_calories(sample).ok THEN [result |-> "FileNotFoundError", file |-> hist]
    ELSE append_to_weight_history(read_sample_calories(sample).data, hist)

\* headers of the sample files: the two fields, the date alone, a header
\* without a date field, and a field the writer does not know
ImpHeaders ==
    { ImpFields, <<DateField>>,
      << <<"D","a","t","e">>, <<"F","o","o","d">> >>,
      <<DateField, <<"n","o","t","e">> >> }

\* lines of the samples: one date with two calorie counts, and another date
ImpLines ==
    { <<<<"2","0","2","5","-","1","2","-","2","2">>, <<"2","0","0","0">> >>,
      <<<<"2","0","2","5","-","1","2","-","2","2">>, <<"1","8","0","0">> >>,
      <<<<"2","0","2","5","-","1","2","-","2","3">>, <<"2","0","0","0">> >> }

ImpSamples ==
    {NoFile}
    \cup {FileOf(ImpFields, rs) : rs \in ListsUpTo(ImpLines, MaxRows)}
    \cup {FileOf(h, rs) : h \in ImpHeaders \ {ImpFields}, rs \in ListsUpTo(ImpLines, 1)}

\* weight_history.csv as update_weight_history.py writes it
WeeklyTable ==
    FileOf(<< <<"w","e","e","k","_","s","t","a","r","t">>,
              <<"a","v","g","_","w","e","i","g","h","t">>,
              <<"a","v","g","_","f","o","o","d">>, <<"a","v","g","_","e","x","e","r","c","i","s","e">>, <<"a","v","g","_","n","e","t">> >>,
           << << <<"2","0","2","5","-","1","2","-","1","5">>, <<"1","8","0",".","0">>, <<"2","0","0","0">>, <<"3","0","0">>, <<"1","7","0","0">> >> >>)

\* history files the first import may find: none, one of no bytes, one
\* written by an earlier import, and the weekly table of
\* update_weight_history.py
ImpHistories ==
    { NoFile, EmptyFile,
      FileOf(ImpFields, << <<<<"2","0","2","5","-","1","2","-","2","2">>, <<"2","0","0","0">> >> >>),
      WeeklyTable }

ImpIdle ==
    /\ impHist = NoFile
    /\ impSample = NoFile
    /\ impPre = NoFile
    /\ impResult = "none"

ImpInit ==
    /\ impHist \in ImpHistories
    /\ impSample = NoFile
    /\ impPre = impHist
    /\ impResult = "none"

\* import_calories(sample_file, weight_history_file)
ImportCalories ==
    /\ \E sample \in ImpSamples :
          /\ impSample' = sample
          /\ impHist' = import_calories(sample, impHist).file
          /\ impResult' = import_calories(sample, impHist).result
    /\ impPre' = impHist
    /\ UNCHANGED notImp

----------------------------------------------------------------------------
(* load_and_prepare of workout_history.py, from the reps filter on         *)

MIN_REPS == 1
MAX_REPS == 20

\* a row of df once Date, Weight and Reps are parsed and Reps is an int
RawRow(d, ex, w, r) == [Date |-> d, Exercise |-> ex, Weight |-> w, Reps |-> r]

\* the number the frames of the model hold for a float whose value is whole
WholeOf(f) == f.num \div f.den

\* the rows kept with reps brought into MIN_REPS..MAX_REPS instead of the
\* rows outside it being removed
ClampReps(df) ==
    [i \in 1..Len(df) |->
        [df[i] EXCEPT !.Reps = IF @ < MIN_REPS THEN MIN_REPS
                                ELSE IF @ > MAX_REPS THEN MAX_REPS ELSE @]]

\* df[(df[REPS_COL] >= MIN_REPS) & (df[REPS_COL] <= MAX_REPS)]
FilterReps(df) == SelectSeq(df, LAMBDA row : row.Reps >= MIN_REPS /\ row.Reps <= MAX_REPS)

\* the tail of load_and_prepare: filter, strip the exercise names, estimate
\* the 1RM of every set; ok is FALSE when estimate_1rm raises
load_and_prepare(df, formula) ==
    LET kept == FilterReps(df)
        est(i) == estimate_1rm(kept[i].Weight, kept[i].Reps, formula)
    IN  IF \E i \in 1..Len(kept) : ~est(i).ok THEN [ok |-> FALSE, frame |-> <<>>]
        ELSE [ok |-> TRUE,
              frame |-> [i \in 1..Len(kept) |->
                            SetRow(kept[i].Date, Strip(kept[i].Exercise),
                                   WholeOf(est(i).val))]]

\* sets of the model: squats on two days with reps below, at both ends of,
\* inside and above the range, a squat logged with a blank before the
\* name, and bench sets; every weight is a multiple of 30, so that the
\* Epley estimates are whole
LdSets ==
    {RawRow(d, <<"S","q","u","a","t">>, SomeF(wr[1], 1), wr[2]) :
        d \in {0, 30}, wr \in {<<90, 5>>, <<120, 21>>, <<150, 0>>, <<90, 20>>}}
    \cup {RawRow(0, <<" ","S","q","u","a","t">>, SomeF(120, 1), 1),
          RawRow(0, <<"B","e","n","c","h">>, SomeF(90, 1), 5),
          RawRow(30, <<"B","e","n","c","h">>, SomeF(120, 1), 21)}

RawFrames ==
    {df \in SeqsUpTo(LdSets, MaxSets) : \A i \in 1..(Len(df) - 1) : df[i].Date <= df[i + 1].Date}

\* --formula at its default; Brzycki's estimates of these sets are not whole
LdFormulas == { <<"e","p","l","e","y">> }

LdIdle == ldRaw = <<>> /\ ldFormula = <<>>

\* the state of main when load_and_prepare has cleaned the numbers
LdInit ==
    /\ ldRaw \in RawFrames
    /\ ldFormula \in LdFormulas
    /\ prFrame = <<>>
    /\ prDaily = <<>>
    /\ prHist = <<>>
    /\ prMin = 0
    /\ prStats = <<>>
    /\ prStatsDf = <<>>
    /\ prPc = "loaded"

\* df = load_and_prepare(str(data_file), cfg)
LoadAndPrepare ==
    /\ prPc = "loaded"
    /\ LET r == load_and_prepare(ldRaw, ldFormula)
       IN  /\ prFrame' = r.frame
           /\ prPc' = IF r.ok THEN "prepared" ELSE "error"
    /\ UNCHANGED <<prDaily, prHist, prMin, prStats, prStatsDf>>
    /\ UNCHANGED <<ldRaw, ldFormula>>
    /\ UNCHANGED notLd

----------------------------------------------------------------------------
(* read_daily_summary of loseit_week_analyzer.py, one row at a time        *)

\* s.startswith(p)
StartsWith(s, p) == Len(s) >= Len(p) /\ SubSeq(s, 1, Len(p)) = p

\* sub in s
Contains(s, sub) ==
    \E i \in 1..(Len(s) - Len(sub) + 1) : SubSeq(s, i, i + Len(sub) - 1) = sub

\* the header row of the Daily Summary table
IsSummaryHeader(row) ==
    /\ Len(row) >= 3
    /\ Strip(row[1]) = <<>>
    /\ Strip(row[2]) = <<"B","u","d","g","e","t">>
    /\ StartsWith(Strip(row[3]), <<"F","o","o","d">>)

\* first = row[0].strip()
FirstCell(row) == Strip(row[1])

\* a blank line or the start of another section
IsSectionEnd(first) ==
    \/ first = <<>>
    \/ StartsWith(Lower(first), <<"t","o","t","a","l","s">>)
    \/ Contains(Lower(first), <<"c","a","l","o","r","i","e","s">>)
    \/ first = <<"N","u","t","r","i","e","n","t","s">>

\* datetime.strptime(first, "%d-%b-%y")
SummaryDate(first) == Strptime(first, [dirs |-> <<"d", "b", "y">>, sep |-> "-"])

\* the row ends the table: a section end, or a leading cell that is no date
IsBreakRow(row) == IsSectionEnd(FirstCell(row)) \/ ~SummaryDate(FirstCell(row)).ok

\* the five counts of a date row, each through parse_int_like
RowCounts(row) == [i \in 1..5 |-> parse_int_like(CellOrEmpty(row, i))]

\* the dict appended for a date row
SummaryRecord(row) ==
    LET dt == SummaryDate(FirstCell(row))
        c == RowCounts(row)
    IN  [date |-> <<dt.y, dt.m, dt.d>>, budget |-> c[1].val, calories_in |-> c[2].val,
         exercise |-> c[3].val, net |-> c[4].val, plus_minus |-> c[5].val]

\* rows of the model: an empty row, the table header, two date rows, a
\* date row with a count int() refuses, and rows that end the table
ScHeaderRow == << <<>>, <<"B","u","d","g","e","t">>, <<"F","o","o","d"," ","c","a","l","o","r","i","e","s">> >>
ScDateRowA == << <<"1","0","-","N","o","v","-","2","5">>, <<"2",",","0","0","0">>, <<"1",",","7","2","9">>, <<"-">> >>
ScDateRowB == << <<" ","1","1","-","n","o","v","-","2","5">>, <<"2",",","0","0","0">> >>
ScBadCountRow == << <<"1","2","-","N","o","v","-","2","5">>, <<"1","-","2">> >>
ScEndRows ==
    { << <<"T","o","t","a","l","s">>, <<"1","4",",","0","0","0">> >>,
      << <<" ">>, <<"B","u","d","g","e","t">> >>,
      << <<"E","x","e","r","c","i","s","e"," ","c","a","l","o","r","i","e","s">> >>,
      << <<"N","u","t","r","i","e","n","t","s">> >>,
      << <<"2","0","2","5","-","1","1","-","1","0">>, <<"2",",","0","0","0">> >> }

ScRowSet == {<<>>, ScHeaderRow, ScDateRowA, ScDateRowB, ScBadCountRow} \cup ScEndRows

ScIdle ==
    /\ scRows = <<>>
    /\ scPos = 0
    /\ scInDaily = FALSE
    /\ scRecords = <<>>
    /\ scPc = "idle"

\* records = [], in_daily = False, the reader at the first row
ScInit ==
    /\ scRows \in SeqsUpTo(ScRowSet, MaxLines)
    /\ scPos = 0
    /\ scInDaily = FALSE
    /\ scRecords = <<>>
    /\ scPc = "scan"

\* the row the for loop is at
ScRow == scRows[scPos + 1]

ScAtRow == scPc = "scan" /\ scPos < Len(scRows)

\* if not row: continue
ScanEmptyRow ==
    /\ ScAtRow
    /\ ScRow = <<>>
    /\ scPos' = scPos + 1
    /\ UNCHANGED <<scRows, scInDaily, scRecords, scPc>>
    /\ UNCHANGED notSc

\* before the table: in_daily becomes True on the header row; continue
ScanBeforeTable ==
    /\ ScAtRow
    /\ ScRow # <<>>
    /\ ~scInDaily
    /\ scInDaily' = IsSummaryHeader(ScRow)
    /\ scPos' = scPos + 1
    /\ UNCHANGED <<scRows, scRecords, scPc>>
    /\ UNCHANGED notSc

\* the row is passed over where the loop is left
ScanStopSkips ==
    /\ ScAtRow
    /\ ScRow # <<>>
    /\ scInDaily
    /\ IsBreakRow(ScRow)
    /\ scPos' = scPos + 1
    /\ UNCHANGED <<scRows, scInDaily, scRecords, scPc>>
    /\ UNCHANGED notSc

\* in the table: break on a section end or a leading cell that is no date
ScanStop ==
    /\ ScAtRow
    /\ ScRow # <<>>
    /\ scInDaily
    /\ IsBreakRow(ScRow)
    /\ scPos' = scPos + 1
    /\ scPc' = "done"
    /\ UNCHANGED <<scRows, scInDaily, scRecords>>
    /\ UNCHANGED notSc

\* in the table: a date row is appended, unless int() raises on a count
ScanDateRow ==
    /\ ScAtRow
    /\ ScRow # <<>>
    /\ scInDaily
    /\ ~IsBreakRow(ScRow)
    /\ scPos' = scPos + 1
    /\ IF \A i \in 1..5 : RowCounts(ScRow)[i].ok
       THEN scRecords' = Append(scRecords, SummaryRecord(ScRow)) /\ scPc' = scPc
       ELSE scRecords' = scRecords /\ scPc' = "error"
    /\ UNCHANGED <<scRows, scInDaily>>
    /\ UNCHANGED notSc

\* the reader is exhausted: return records
ScanEnd ==
    /\ scPc = "scan"
    /\ scPos = Len(scRows)
    /\ scPc' = "done"
    /\ UNCHANGED <<scRows, scPos, scInDaily, scRecords>>
    /\ UNCHANGED notSc

----------------------------------------------------------------------------
(* _build_column_map of update_weight_history.py on every header list      *)

\* headers of the model: aliases of three fields in several spellings, two
\* aliases of one field, a header with two blanks inside, and a header
\* that is no alias
CmHeaderSet ==
    { <<"D","a","t","e">>,
      <<" ","d","a","t","e"," ">>,
      <<"D","a","y">>,
      <<"L","o","g"," ","D","a","t","e">>,
      <<"L","o","g"," "," ","D","a","t","e">>,
      <<"F","o","o","d">>,
      <<"C","a","l","o","r","i","e","s">>,
      <<" ","W","E","I","G","H","T">>,
      <<"N","o","t","e","s">> }

CmIdle == cmHeaders = <<>> /\ cmMap = <<>> /\ cmDone = FALSE

CmInit ==
    /\ cmHeaders \in SeqsUpTo(CmHeaderSet, MaxHeaders)
    /\ cmMap = <<>>
    /\ cmDone = FALSE

\* col_map = _build_column_map(headers)
BuildColumnMap ==
    /\ ~cmDone
    /\ cmMap' = _build_column_map(cmHeaders)
    /\ cmDone' = TRUE
    /\ UNCHANGED cmHeaders
    /\ UNCHANGED notCm

----------------------------------------------------------------------------
(* Specifications                                                          *)

MainIdle ==
    /\ inputFile = NoFile
    /\ outFile = NoFile
    /\ pc = "idle"
    /\ failedAt = "none"
    /\ preFile = NoFile
    /\ rerun = FALSE
    /\ input_rows = <<>>
    /\ daily = <<>>
    /\ weekly = <<>>
    /\ existing = <<>>
    /\ loaded = <<>>
    /\ idx = 1
    /\ added = 0
    /\ updated = 0
    /\ writes = 0

\* the merge-upsert runs
Init == MainInit /\ AggIdle /\ WkIdle /\ ExIdle /\ NumIdle /\ PrIdle /\ E1Idle /\ ImpIdle /\ LdIdle /\ ScIdle /\ CmIdle
Next == MainNext
Spec == Init /\ [][Next]_vars

\* the aggregator on every list of daily records
AggSpecInit == MainIdle /\ AggInit /\ WkIdle /\ ExIdle /\ NumIdle /\ PrIdle /\ E1Idle /\ ImpIdle /\ LdIdle /\ ScIdle /\ CmIdle
AggSpecNext == Aggregate
SpecAggregate == AggSpecInit /\ [][AggSpecNext]_vars

\* the bucket key of every date
WkSpecInit == MainIdle /\ AggIdle /\ WkInit /\ ExIdle /\ NumIdle /\ PrIdle /\ E1Idle /\ ImpIdle /\ LdIdle /\ ScIdle /\ CmIdle
WkSpecNext == MondayWeekStart
SpecWeekStart == WkSpecInit /\ [][WkSpecNext]_vars

\* the daily record builder on every list of lines
ExSpecInit == MainIdle /\ AggIdle /\ WkIdle /\ ExInit /\ NumIdle /\ PrIdle /\ E1Idle /\ ImpIdle /\ LdIdle /\ ScIdle /\ CmIdle
ExSpecNext == ExtractRows
SpecExtract == ExSpecInit /\ [][ExSpecNext]_vars

\* the numeric normalization of every cell under both formats
NumSpecInit == MainIdle /\ AggIdle /\ WkIdle /\ ExIdle /\ NumInit /\ PrIdle /\ E1Idle /\ ImpIdle /\ LdIdle /\ ScIdle /\ CmIdle
NumSpecNext == NormalizeWeekly \/ NormalizeDaily
SpecNumeric == NumSpecInit /\ [][NumSpecNext]_vars

\* the daily-best reduction and the PR statistics of every log
PrSpecInit == MainIdle /\ AggIdle /\ WkIdle /\ ExIdle /\ NumIdle /\ PrInit /\ E1Idle /\ ImpIdle /\ LdIdle /\ ScIdle /\ CmIdle
PrSpecNext == BestPerDay \/ PlotExerciseHistory \/ PlotDaysSincePr
SpecPR == PrSpecInit /\ [][PrSpecNext]_vars

\* estimate_1rm on every weight, reps and formula selector
E1SpecInit == MainIdle /\ AggIdle /\ WkIdle /\ ExIdle /\ NumIdle /\ PrIdle /\ E1Init /\ ImpIdle /\ LdIdle /\ ScIdle /\ CmIdle
E1SpecNext == Estimate1rm
SpecEstimate == E1SpecInit /\ [][E1SpecNext]_vars

\* every sequence of imports of the simple weight importer
ImpSpecInit == MainIdle /\ AggIdle /\ WkIdle /\ ExIdle /\ NumIdle /\ PrIdle /\ E1Idle /\ ImpInit /\ LdIdle /\ ScIdle /\ CmIdle
ImpSpecNext == ImportCalories
SpecImport == ImpSpecInit /\ [][ImpSpecNext]_vars

\* load_and_prepare and the daily-best reduction of every log
LdSpecInit == MainIdle /\ AggIdle /\ WkIdle /\ ExIdle /\ NumIdle /\ E1Idle /\ ImpIdle /\ LdInit /\ ScIdle /\ CmIdle
LdSpecNext == LoadAndPrepare \/ BestPerDay
SpecLoad == LdSpecInit /\ [][LdSpecNext]_vars

\* read_daily_summary on every weekly export of the model
ScSpecInit == MainIdle /\ AggIdle /\ WkIdle /\ ExIdle /\ NumIdle /\ PrIdle /\ E1Idle /\ ImpIdle /\ LdIdle /\ ScInit /\ CmIdle
ScSpecNext == ScanEmptyRow \/ ScanBeforeTable \/ ScanStop \/ ScanDateRow \/ ScanEnd
SpecScan == ScSpecInit /\ [][ScSpecNext]_vars

\* _build_column_map on every header list of the model
CmSpecInit == MainIdle /\ AggIdle /\ WkIdle /\ ExIdle /\ NumIdle /\ PrIdle /\ E1Idle /\ ImpIdle /\ LdIdle /\ ScIdle /\ CmInit
CmSpecNext == BuildColumnMap
SpecColumnMap == CmSpecInit /\ [][CmSpecNext]_vars

----------------------------------------------------------------------------
(* The persisted table as it reads from the file itself                    *)

\* the week_start cell of a data line, "" when the line has none
WeekStartCell(file, line) ==
    IF \E i \in 1..Len(file.header) : file.header[i] = "week_start"
    THEN LET c == LastIndex(file.header, "week_start")
         IN  IF c <= Len(line) THEN line[c] ELSE <<>>
    ELSE <<>>

\* the data lines of a file that carry a bucket key
KeyedLines(file) == {i \in 1..Len(file.rows) : Strip(WeekStartCell(file, file.rows[i])) # <<>>}

\* the bucket keys persisted in a file
FileKeys(file) == {Strip(WeekStartCell(file, file.rows[i])) : i \in KeyedLines(file)}

\* the line persisted under bucket key k (the last one, if several)
FileRow(file, k) ==
    file.rows[CHOOSE i \in KeyedLines(file) :
                /\ Strip(WeekStartCell(file, file.rows[i])) = k
                /\ \A j \in KeyedLines(file) :
                      Strip(WeekStartCell(file, file.rows[j])) = k => j <= i]

\* the row of an insertion-ordered dict under key k
RowOf(dict, k) == dict[KeyIndex(dict, k)].row

----------------------------------------------------------------------------
(* Claims on the merge-upsert run                                          *)

\* C1: a run that starts right after a completed run on the same input file
\* reports added = 0 and updated = 0 and leaves weight_history.csv exactly
\* as the first run wrote it.
C1_Idempotent ==
    (pc = "done" /\ rerun) => (added = 0 /\ updated = 0 /\ outFile = preFile)

\* a second run on the same input completed, on a table of two buckets or
\* more that the input computes a week of
C1_Witness ==
    /\ pc = "done"
    /\ rerun
    /\ weekly # <<>>
    /\ Len(preFile.rows) >= 2

\* C2: no step removes a bucket from weight_history.csv, and a bucket that
\* this run's aggregation did not produce keeps exactly the line it had.
C2_UnrelatedBucketsPreserved ==
    [][outFile' # outFile =>
          \A k \in FileKeys(outFile) :
              /\ k \in FileKeys(outFile')
              /\ k \notin Keys(weekly) => FileRow(outFile', k) = FileRow(outFile, k)]_vars

\* a completed run changed the file while a bucket it did not compute was
\* in the table before
C2_Witness ==
    /\ pc = "done"
    /\ outFile # preFile
    /\ weekly # <<>>
    /\ \E k \in FileKeys(preFile) : k \notin Keys(weekly)

\* C3: one pass of the merge loop inserts an absent key and counts it as
\* added, overwrites a present key whose formatted row differs and counts
\* it as updated, and leaves a present key with an equal row and both
\* counters alone; no other key is touched.  When the run is done, added is
\* the number of keys the file gained and updated the number of keys whose
\* line changed.
C3_MergeStep ==
    LET w == weekly[idx]
        k == w.key
    IN  /\ Keys(existing') = Keys(existing) \cup {k}
        /\ \A j \in Keys(existing) \ {k} : RowOf(existing', j) = RowOf(existing, j)
        /\ k \notin Keys(existing) =>
              /\ RowOf(existing', k) = NewRow(w)
              /\ added' = added + 1
              /\ updated' = updated
        /\ (k \in Keys(existing) /\ NewRow(w) # RowOf(existing, k)) =>
              /\ RowOf(existing', k) = NewRow(w)
              /\ added' = added
              /\ updated' = updated + 1
        /\ (k \in Keys(existing) /\ NewRow(w) = RowOf(existing, k)) =>
              /\ RowOf(existing', k) = RowOf(existing, k)
              /\ added' = added
              /\ updated' = updated

C3_Counts ==
    /\ added = Cardinality(FileKeys(outFile) \ FileKeys(preFile))
    /\ updated = Cardinality({k \in FileKeys(preFile) :
                                FileRow(outFile, k) # FileRow(preFile, k)})

C3_ThreeCases ==
    [][/\ pc = "merge" => C3_MergeStep
       /\ pc' = "done" => C3_Counts']_vars

\* a completed run both added a bucket and updated another
C3_Witness ==
    /\ pc = "done"
    /\ added >= 1
    /\ updated >= 1

\* C4: after a completed run weight_history.csv is the header line followed
\* by one line per bucket of the merged table and nothing else, the
\* week_start cells strictly ascending (so pairwise distinct).
C4_SortedUnique ==
    pc = "done" =>
        /\ outFile.exists
        /\ outFile.header = OUTPUT_HEADERS
        /\ \A i \in 1..Len(outFile.rows) : Len(outFile.rows[i]) = Len(OUTPUT_HEADERS)
        /\ \A i \in 1..(Len(outFile.rows) - 1) :
              StrLess(outFile.rows[i][1], outFile.rows[i + 1][1])
        /\ Len(outFile.rows) = Cardinality(FileKeys(preFile) \cup Keys(weekly))

\* a completed run wrote the line of a new week before a line that was in
\* the file already
C4_Witness ==
    /\ pc = "done"
    /\ added >= 1
    /\ \E i \in 1..(Len(outFile.rows) - 1) :
          /\ outFile.rows[i] \notin Range(preFile.rows)
          /\ outFile.rows[i + 1] \in Range(preFile.rows)

\* the conditions under which main raises before it merges
InputMissing == ~inputFile.exists
InputNoHeader == inputFile.exists /\ inputFile.header = <<>>
DateUnresolved ==
    /\ inputFile.exists
    /\ \A i \in 1..Len(inputFile.header) :
          \A a \in Range(ALIASES[1].aliases) : _normalize_header(inputFile.header[i]) # a
DestNoHeader == preFile.exists /\ preFile.header = <<>>

\* C5: weight_history.csv is written at most once in a run, and only when
\* the input was read, the date column resolved, the prior table loaded
\* and every computed bucket merged; until then, and in a run that aborts
\* (input missing, no header in the input or the destination, no date
\* column), the file is what it was when the run started.
C5_WriteLast ==
    /\ writes <= 1
    /\ pc \in {"idle", "read", "extract", "aggregate", "load", "merge", "write"} =>
          (outFile = preFile /\ writes = 0)
    /\ (pc = "aborted" /\ failedAt # "write") => (outFile = preFile /\ writes = 0)
    /\ (InputMissing \/ InputNoHeader \/ DateUnresolved \/ DestNoHeader) =>
          (outFile = preFile /\ writes = 0 /\ pc # "done")
    /\ writes = 1 =>
          /\ pc \in {"done", "aborted"}
          /\ idx = Len(weekly) + 1
          /\ Keys(weekly) \subseteq Keys(existing)
          /\ Keys(loaded) = FileKeys(preFile)

\* a run aborted on a destination without a header line after its input
\* was read and aggregated into weeks
C5_Witness ==
    /\ pc = "aborted"
    /\ failedAt = "load"
    /\ weekly # <<>>
    /\ DestNoHeader

----------------------------------------------------------------------------
(* Claims on the aggregator                                                *)

\* 2024-01-01 was a Monday
KnownMonday == [ok |-> TRUE, y |-> 2024, m |-> 1, d |-> 1]

\* the number of the Monday-to-Sunday week of a date
WeekIndex(dt) == (ToOrdinal(dt) - ToOrdinal(KnownMonday)) \div 7

IsMonday(dt) == (ToOrdinal(dt) - ToOrdinal(KnownMonday)) % 7 = 0

IsoDate(iso) == Strptime(iso, PatIso)

\* the value a daily record contributes to a field of its bucket
FieldValue(d, field) ==
    IF field = "net"
    THEN (IF d.food.some /\ d.exercise.some THEN SubF(d.food, d.exercise) ELSE NoneF)
    ELSE d[field]

\* the aggregate of a field in a computed week
AggregateOf(w, field) ==
    CASE field = "weight" -> w.avg_weight
      [] field = "food" -> w.avg_food
      [] field = "exercise" -> w.avg_exercise
      [] field = "net" -> w.avg_net

\* the records of the week of key that have a value for the field
Qualifying(recs, key, field) ==
    {i \in 1..Len(recs) :
        /\ WeekIndex(IsoDate(recs[i].date_iso)) = WeekIndex(IsoDate(key))
        /\ FieldValue(recs[i], field).some}

\* the sum of the field over the records S, as a fraction
RECURSIVE FieldSum(_, _, _)
FieldSum(recs, S, field) ==
    IF S = {} THEN [num |-> 0, den |-> 1]
    ELSE LET i == CHOOSE j \in S : TRUE
             v == FieldValue(recs[i], field)
             r == FieldSum(recs, S \ {i}, field)
         IN  [num |-> v.num * r.den + r.num * v.den, den |-> v.den * r.den]

\* a is the mean of the field over the records S
IsMeanOf(a, recs, S, field) ==
    /\ a.some
    /\ a.num * FieldSum(recs, S, field).den * Cardinality(S)
          = FieldSum(recs, S, field).num * a.den

\* C6: _aggregate_weekly returns one bucket per week that has a record; in
\* it each of weight, food and exercise is the mean over exactly the
\* records of the week that have the field, avg_net is the mean of
\* food - exercise over exactly the records that have both, and a field no
\* record of the week has is missing, not zero.
C6_AggregateMeans ==
    aggDone =>
        /\ \A i \in 1..Len(aggDaily) :
              \E j \in 1..Len(aggOut) :
                  WeekIndex(IsoDate(aggOut[j].key)) = WeekIndex(IsoDate(aggDaily[i].date_iso))
        /\ \A i, j \in 1..Len(aggOut) : i # j => aggOut[i].key # aggOut[j].key
        /\ \A j \in 1..Len(aggOut) :
              /\ \E i \in 1..Len(aggDaily) :
                    WeekIndex(IsoDate(aggOut[j].key)) = WeekIndex(IsoDate(aggDaily[i].date_iso))
              /\ \A field \in {"weight", "food", "exercise", "net"} :
                    LET S == Qualifying(aggDaily, aggOut[j].key, field)
                        a == AggregateOf(aggOut[j], field)
                    IN  IF S = {} THEN ~a.some
                        ELSE IsMeanOf(a, aggDaily, S, field)

\* a week with food on two days and exercise on one of them: avg_net is not
\* avg_food - avg_exercise, and avg_weight is missing
C6_Witness ==
    /\ aggDone
    /\ \E j \in 1..Len(aggOut) :
          LET w == aggOut[j]
          IN  /\ w.avg_food.some /\ w.avg_exercise.some /\ w.avg_net.some
              /\ ~w.avg_weight.some
              /\ LET diff == SubF(w.avg_food, w.avg_exercise)
                 IN  w.avg_net.num * diff.den # diff.num * w.avg_net.den

\* C7: the bucket key of a date is a Monday, on or at most 6 days before
\* the date; a date within a week's distance has the same key exactly when
\* it lies in the same Monday-to-Sunday week.
C7_MondayKey ==
    wkDone =>
        LET d == IsoDate(wkDate)
            k == IsoDate(wkKey)
        IN  /\ k.ok
            /\ IsMonday(k)
            /\ ToOrdinal(k) <= ToOrdinal(d)
            /\ ToOrdinal(d) - ToOrdinal(k) <= 6
            /\ \A o \in -7..7 :
                  LET e == FromOrdinal(ToOrdinal(d) + o)
                  IN  (WeekIndex(e) = WeekIndex(d))
                          <=> (_monday_week_start(Strftime(e)).iso = wkKey)

\* a Sunday whose Monday lies in the year before
C7_Witness ==
    /\ wkDone
    /\ IsoDate(wkKey).ok
    /\ IsoDate(wkKey).y # IsoDate(wkDate).y
    /\ ToOrdinal(IsoDate(wkDate)) - ToOrdinal(IsoDate(wkKey)) = 6

----------------------------------------------------------------------------
(* Claims on the daily record builder                                      *)

\* the date of a line under header h, <<>> when the line has no date cell
\* or the cell gives no date
ExpectedIso(h, line) ==
    IF Len(line) < DatePos(h) THEN <<>>
    ELSE (CHOOSE d \in DateCells : d.cell = line[DatePos(h)]).iso

\* the food value of a line under header h, NoneF when the line has no food
\* cell or the cell gives no number
ExpectedFood(h, line) ==
    IF Len(line) < FoodPos(h) THEN NoneF
    ELSE (CHOOSE f \in FoodCells : f.cell = line[FoodPos(h)]).val

\* the lines with a date, in the order of the file
DatedLines(h, lines) == SelectSeq(lines, LAMBDA line : ExpectedIso(h, line) # <<>>)

\* C8: with a resolved date column _extract_daily_rows does not raise
\* whatever the rows hold; it returns one daily record, in input order, for
\* each row whose date cell parses, carrying that date, and none for a row
\* whose date cell is missing, empty, blank or matches no pattern; a food
\* cell that is no number leaves the record in place with food None.
C8_OneRecordPerDatedRow ==
    exDone =>
        LET kept == DatedLines(exHeader, exRows)
        IN  /\ exOut.ok
            /\ "date" \in DOMAIN exOut.col_map
            /\ Len(exOut.daily) = Len(kept)
            /\ \A i \in 1..Len(kept) :
                  /\ exOut.daily[i].date_iso = ExpectedIso(exHeader, kept[i])
                  /\ exOut.daily[i].food = ExpectedFood(exHeader, kept[i])

\* a row without a date was dropped before a row that was kept although
\* its food cell is no number
C8_Witness ==
    /\ exDone
    /\ Len(exRows) = 2
    /\ Len(exRows[1]) = 2
    /\ Len(exRows[2]) = 2
    /\ ExpectedIso(exHeader, exRows[1]) = <<>>
    /\ Strip(exRows[1][DatePos(exHeader)]) # <<>>
    /\ ExpectedIso(exHeader, exRows[2]) # <<>>
    /\ exRows[2][FoodPos(exHeader)] = <<"x">>
    /\ Len(exOut.daily) = 1
    /\ exOut.daily[1].food = NoneF

----------------------------------------------------------------------------
(* Claims on numeric normalization                                         *)

\* the value is None (unknown)
IsNone(out) == out.ok /\ ~out.value.some

\* the value is the number n
IsNumber(out, n) == out.ok /\ out.value.some /\ out.value.num = n * out.value.den

\* the line holds the cell and the cell is a lone dash or en-dash
LoneDash == numShape = "cell" /\ Strip(numCell) \in {<<"-">>, <<"ENDASH">>}

\* the cell is an empty string, or the line or the header has no such cell
EmptyOrMissing == numShape # "cell" \/ numCell = <<>>

\* the cell is digits and thousands separators, as "1,729"
Grouped ==
    /\ numShape = "cell"
    /\ \E i \in 1..Len(numCell) : IsDigit(numCell[i])
    /\ \A i \in 1..Len(numCell) : IsDigit(numCell[i]) \/ numCell[i] = ","

\* C9 as stated: in the weekly export a lone dash or en-dash gives 0; an
\* empty string, a missing cell or an absent column gives None and never 0
\* under either format; digits with thousands separators give the number.
C9_Original ==
    numDone =>
        /\ (numOut.format = "weekly" /\ LoneDash) => IsNumber(numOut, 0)
        /\ EmptyOrMissing => (IsNone(numOut) /\ ~IsNumber(numOut, 0))
        /\ Grouped => IsNumber(numOut, DigitsToNat(RemoveChar(numCell, ",")))

\* C9 amended: in the weekly export a lone dash or en-dash gives 0, and so
\* do an empty string and a cell missing from the row (parse_int_like has
\* no None result); in the daily log an empty string, a cell missing from
\* the row and an absent column give None and never 0; digits with
\* thousands separators such as "1,729" give the number under both.
C9_PerFormat ==
    numDone =>
        /\ (numOut.format = "weekly" /\ LoneDash) => IsNumber(numOut, 0)
        /\ (numOut.format = "weekly" /\ EmptyOrMissing) => IsNumber(numOut, 0)
        /\ (numOut.format = "daily" /\ EmptyOrMissing) =>
              (IsNone(numOut) /\ ~IsNumber(numOut, 0))
        /\ Grouped => IsNumber(numOut, DigitsToNat(RemoveChar(numCell, ",")))

\* the weekly export was read on a line that ends before the exercise cell
C9_Witness ==
    /\ numDone
    /\ numOut.format = "weekly"
    /\ numShape = "missing"
    /\ IsNumber(numOut, 0)

----------------------------------------------------------------------------
(* Claims on the PR statistics                                             *)

\* the sets of exercise ex in the prepared frame
SetsOf(ex) == {prFrame[i] : i \in {j \in 1..Len(prFrame) : prFrame[j].Exercise = ex}}

\* its session times, its best estimate, and the times the best was reached
SessionsOf(ex) == {r.Date : r \in SetsOf(ex)}
BestOf(ex) == MaxOf({r.est_1rm : r \in SetsOf(ex)})
BestTimesOf(ex) == {r.Date : r \in {q \in SetsOf(ex) : q.est_1rm = BestOf(ex)}}

\* the statistics computed for exercise ex
StatsFor(ex) == {i \in 1..Len(prStats) : prStats[i].exercise = ex}

\* s is the PR statistic of exercise ex
IsPrStatOf(s, ex) ==
    /\ s.sessions = Cardinality(SessionsOf(ex))
    /\ s.pr_1rm = BestOf(ex)
    /\ \A r \in SetsOf(ex) : r.est_1rm <= s.pr_1rm
    /\ s.pr_date = MinOf(BestTimesOf(ex))
    /\ s.last_date = MaxOf(SessionsOf(ex))
    /\ s.days_since_pr >= 0
    /\ 24 * s.days_since_pr <= s.last_date - s.pr_date
    /\ s.last_date - s.pr_date < 24 * (s.days_since_pr + 1)

\* the running maximum of a history never decreases, is never below the
\* session's own estimate, and ends at the largest estimate
RunningMaxHolds(hist) ==
    /\ \A i \in 1..Len(hist) : hist[i].pr >= hist[i].est_1rm
    /\ \A i \in 1..(Len(hist) - 1) : hist[i + 1].pr >= hist[i].pr
    /\ hist # <<>> => hist[Len(hist)].pr = MaxOf({hist[i].est_1rm : i \in 1..Len(hist)})

\* C10: every exercise with at least min_sessions daily-best records has
\* exactly one PR statistic: pr_value is the largest estimate of all its
\* sessions, pr_date the earliest time that estimate was reached, and
\* days_since_pr the whole days from pr_date to its latest session, never
\* negative; an exercise with fewer records has no statistic; the running
\* maximum of an exercise history never decreases.
C10_PrStats ==
    /\ prPc = "done" =>
          \A ex \in ExerciseNames :
              IF Cardinality(SessionsOf(ex)) >= prMin
              THEN /\ Cardinality(StatsFor(ex)) = 1
                   /\ \A i \in StatsFor(ex) : IsPrStatOf(prStats[i], ex)
              ELSE StatsFor(ex) = {}
    /\ prPc \in {"history", "done"} => RunningMaxHolds(prHist)

\* the sessions (d1, 200), (d2, 220), (d3, 210) of one exercise: the PR is
\* the second session although a later one is lower, after a history of
\* the exercise was drawn
C10_Witness ==
    /\ prPc = "done"
    /\ Len(prHist) = 3
    /\ \E i \in 1..Len(prStats) :
          /\ prStats[i].sessions = 3
          /\ prStats[i].pr_1rm = 220
          /\ prStats[i].pr_date = 30
          /\ prStats[i].last_date = 96
          /\ prStats[i].days_since_pr = 2
    /\ \E i \in 1..Len(prFrame) : prFrame[i].Date = 96 /\ prFrame[i].est_1rm = 210

----------------------------------------------------------------------------
(* Claims on estimate_1rm                                                  *)

Epley == <<"e","p","l","e","y">>
Brzycki == <<"b","r","z","y","c","k","i">>

\* the estimate is the float a times n / d, for d > 0
IsTimes(out, a, n, d) ==
    /\ out.ok
    /\ out.val.some
    /\ out.val.den > 0
    /\ out.val.num * a.den * d = a.num * n * out.val.den

\* C11: for reps <= 1 both formulas return exactly the weight; for reps > 1
\* Epley returns weight * (1 + reps/30) and Brzycki returns
\* weight * 36 / (37 - min(reps, 36)); the denominator of Brzycki is at
\* least 1, and from reps = 36 on the result is that of reps = 36,
\* weight * 36.
C11_Formulas ==
    e1Done =>
        /\ (e1Reps <= 1 /\ Lower(e1Formula) \in {Epley, Brzycki}) =>
              (e1Out.ok /\ e1Out.val = e1Weight)
        /\ (e1Reps > 1 /\ Lower(e1Formula) = Epley) =>
              IsTimes(e1Out, e1Weight, 30 + e1Reps, 30)
        /\ (e1Reps > 1 /\ Lower(e1Formula) = Brzycki) =>
              /\ 37 - Min2(e1Reps, 36) >= 1
              /\ IsTimes(e1Out, e1Weight, 36, 37 - Min2(e1Reps, 36))
        /\ (e1Reps >= 36 /\ Lower(e1Formula) = Brzycki) =>
              IsTimes(e1Out, e1Weight, 36, 1)

\* Brzycki at weight 100 and reps 40 gave 3600, the estimate of reps 36
C11_Witness ==
    /\ e1Done
    /\ Lower(e1Formula) = Brzycki
    /\ e1Weight = SomeF(100, 1)
    /\ e1Reps = 40
    /\ IsTimes(e1Out, SomeF(3600, 1), 1, 1)

\* C12: with a selector that is neither "epley" nor "brzycki" in any case
\* of letters, estimate_1rm raises and returns no estimate, whatever the
\* weight and the reps.
C12_UnknownFormulaFails ==
    (e1Done /\ Lower(e1Formula) \notin {Epley, Brzycki}) => ~e1Out.ok

----------------------------------------------------------------------------
(* Claims on the simple weight importer                                    *)

\* the history file has at least its header line
HistNonEmpty == impHist.exists /\ impHist.header # <<>>

\* the header line names week_start, and no later line repeats the header
HistHeaderWeekStart ==
    /\ <<"w","e","e","k","_","s","t","a","r","t">> \in Range(impHist.header)
    /\ \A i \in 1..Len(impHist.rows) : impHist.rows[i] # impHist.header

\* no two data rows of the history file carry the same date
HistDatesUnique ==
    \A i, j \in 1..Len(impHist.rows) :
        i # j => impHist.rows[i][1] # impHist.rows[j][1]

\* C13: after every import that returns, the history file is not empty,
\* its first line is the one header row and names week_start, and no date
\* is in more than one data row.
C13_HistoryInvariant ==
    impResult = "ok" => (HistNonEmpty /\ HistHeaderWeekStart /\ HistDatesUnique)

\* the dates alone: violated too, by two sample rows of one date
DatesUniqueAfterImport == impResult = "ok" => HistDatesUnique

\* the header alone: violated too, the importer writes date,calories
HeaderAfterImport == impResult = "ok" => (HistNonEmpty /\ HistHeaderWeekStart)

----------------------------------------------------------------------------
(* Claims on the daily-best reduction                                      *)

\* the sets of the cleaned log whose reps are in 1..20
InRangeSets == {i \in 1..Len(ldRaw) : ldRaw[i].Reps \in 1..20}

\* the (date, exercise name) pair of set i of the cleaned log
PairOf(i) == <<ldRaw[i].Date, Strip(ldRaw[i].Exercise)>>

\* the estimated 1RM of set i: its weight at one rep, Epley's above
EstimateOf(i) ==
    IF ldRaw[i].Reps <= 1 THEN ldRaw[i].Weight.num \div ldRaw[i].Weight.den
    ELSE (ldRaw[i].Weight.num * (30 + ldRaw[i].Reps)) \div (30 * ldRaw[i].Weight.den)

\* the records of the daily-best table of pair p
RecordsOf(p) == {k \in 1..Len(prDaily) : <<prDaily[k].Date, prDaily[k].Exercise>> = p}

\* C14: the daily-best reduction yields exactly one record for every
\* (date, exercise name) pair that has a set with reps in 1..20, its value
\* is the greatest estimate over exactly the in-range sets of the pair, and
\* a set with reps outside 1..20 contributes to no record.
C14_DailyBest ==
    (prPc = "daily" /\ ldRaw # <<>>) =>
        /\ \A i \in InRangeSets :
              /\ Cardinality(RecordsOf(PairOf(i))) = 1
              /\ \A k \in RecordsOf(PairOf(i)) :
                    /\ prDaily[k].est_1rm >= EstimateOf(i)
                    /\ \E j \in InRangeSets :
                          PairOf(j) = PairOf(i) /\ prDaily[k].est_1rm = EstimateOf(j)
        /\ \A k \in 1..Len(prDaily) :
              \E i \in InRangeSets : PairOf(i) = <<prDaily[k].Date, prDaily[k].Exercise>>

\* a pair whose heaviest set is out of range beside an in-range one, a pair
\* of out-of-range sets only, and the table made
C14_Witness ==
    /\ prPc = "daily"
    /\ Len(ldRaw) = 3
    /\ ldRaw[1].Date = 0 /\ ldRaw[1].Reps = 5 /\ ldRaw[1].Exercise = <<"S","q","u","a","t">>
    /\ ldRaw[2].Date = 0 /\ ldRaw[2].Reps = 21 /\ ldRaw[2].Exercise = <<"S","q","u","a","t">>
    /\ ldRaw[3].Date = 30 /\ ldRaw[3].Reps = 0
    /\ Len(prDaily) = 1
    /\ prDaily[1].est_1rm = 105

----------------------------------------------------------------------------
(* Claims on the Daily Summary scanner                                     *)

\* the phase of the scanner: 0 before the table, 1 in the table, 2 done
ScPhase == IF scPc # "scan" THEN 2 ELSE IF scInDaily THEN 1 ELSE 0

\* row i of the export is the sentinel header: an empty first cell, Budget,
\* and a third cell that starts with Food
SentinelAt(i) ==
    /\ Len(scRows[i]) >= 3
    /\ Strip(scRows[i][1]) = <<>>
    /\ Strip(scRows[i][2]) = <<"B","u","d","g","e","t">>
    /\ Len(Strip(scRows[i][3])) >= 4
    /\ SubSeq(Strip(scRows[i][3]), 1, 4) = <<"F","o","o","d">>

\* the leading cell of row i is a date of the export, such as 10-Nov-25
DateAt(i) ==
    /\ scRows[i] # <<>>
    /\ Strip(scRows[i][1]) # <<>>
    /\ Strptime(Strip(scRows[i][1]), DATE_PATTERNS[4]).ok

\* row i has cells, and its leading cell is blank, a totals or summary
\* marker, or no date
BreaksAt(i) == scRows[i] # <<>> /\ ~DateAt(i)

\* the first sentinel header row, past the end of the file when there is none
FirstSentinel ==
    IF \E i \in 1..Len(scRows) : SentinelAt(i)
    THEN CHOOSE i \in 1..Len(scRows) : SentinelAt(i) /\ \A j \in 1..(i - 1) : ~SentinelAt(j)
    ELSE Len(scRows) + 1

\* the first breaking row after the header, past the end when there is none
FirstBreak ==
    IF \E i \in (FirstSentinel + 1)..Len(scRows) : BreaksAt(i)
    THEN CHOOSE i \in (FirstSentinel + 1)..Len(scRows) :
            BreaksAt(i) /\ \A j \in (FirstSentinel + 1)..(i - 1) : ~BreaksAt(j)
    ELSE Len(scRows) + 1

\* the leading cells of the date rows between the header and the first
\* breaking row, in file order
TableDates ==
    LET between == SelectSeq(SubSeq(scRows, FirstSentinel + 1, FirstBreak - 1),
                             LAMBDA row : row # <<>>)
        dt(row) == Strptime(Strip(row[1]), DATE_PATTERNS[4])
    IN  [k \in 1..Len(between) |-> <<dt(between[k]).y, dt(between[k]).m, dt(between[k]).d>>]

RecordDates == [k \in 1..Len(scRecords) |-> scRecords[k].date]

\* one step of the scanner: the phase never goes back, a breaking row met in
\* the table ends the scan without an error and adds nothing, and nothing is
\* added once the scan is over
ScanStep ==
    /\ ScPhase' >= ScPhase
    /\ (ScPhase = 1 /\ scPos < Len(scRows) /\ BreaksAt(scPos + 1)) =>
          (scPc' = "done" /\ scRecords' = scRecords)
    /\ ScPhase = 2 => scRecords' = scRecords

----------------------------------------------------------------------------
(* Claims on the schema resolver                                           *)

\* s with every run of blanks made one underscore
RECURSIVE CollapseBlanks(_)
CollapseBlanks(s) ==
    IF s = <<>> THEN <<>>
    ELSE IF IsSpace(Head(s)) THEN <<"_">> \o CollapseBlanks(LStrip(Tail(s)))
    ELSE <<Head(s)>> \o CollapseBlanks(Tail(s))

\* the normalized form of a header: lower-cased, trimmed, internal
\* whitespace collapsed to underscores
CollapsedForm(h) == CollapseBlanks(Lower(Strip(h)))

\* the normalized form with every blank made an underscore of its own
PerBlankForm(h) == ReplaceChar(Lower(Strip(h)), " ", "_")

CanonicalFields == {"date", "food", "exercise", "weight"}

AliasesOf(f) == ALIASES[CHOOSE k \in 1..Len(ALIASES) : ALIASES[k].field = f].aliases

\* the forms of the headers given, under Form
CollapsedForms == {CollapsedForm(cmHeaders[i]) : i \in 1..Len(cmHeaders)}
PerBlankForms == {PerBlankForm(cmHeaders[i]) : i \in 1..Len(cmHeaders)}

\* field f is resolved to a header of the list whose form is the earliest
\* alias of f among forms, and is unresolved exactly when no alias is
ResolvedBy(f, forms, formOfMapped) ==
    LET al == AliasesOf(f)
        hit == {i \in 1..Len(al) : al[i] \in forms}
    IN  IF hit = {} THEN f \notin DOMAIN cmMap
        ELSE /\ f \in DOMAIN cmMap
             /\ cmMap[f] \in Range(cmHeaders)
             /\ \E i \in hit : (\A j \in hit : i <= j) /\ formOfMapped = al[i]

MappedOr(f) == IF f \in DOMAIN cmMap THEN cmMap[f] ELSE <<>>

\* C16: for every list of headers and every canonical field,
\* _build_column_map resolves the field to a header whose normalized form
\* (lower-cased, trimmed, internal whitespace collapsed to underscores) is
\* the earliest alias of the field's list that matches a header, and leaves
\* it unresolved exactly when no alias matches.
C16_Resolver ==
    cmDone => \A f \in CanonicalFields :
                 ResolvedBy(f, CollapsedForms, CollapsedForm(MappedOr(f)))

\* the same with every blank made an underscore of its own, as
\* _normalize_header does: this holds
ResolverPerBlank ==
    cmDone => \A f \in CanonicalFields :
                 ResolvedBy(f, PerBlankForms, PerBlankForm(MappedOr(f)))

\* headers of one normalized form: the last of them is the one mapped
ResolverLastOfEqualForms ==
    cmDone => \A f \in DOMAIN cmMap : \E i \in 1..Len(cmHeaders) :
                 /\ cmHeaders[i] = cmMap[f]
                 /\ \A j \in (i + 1)..Len(cmHeaders) :
                       PerBlankForm(cmHeaders[j]) # PerBlankForm(cmHeaders[i])

====
